---- MODULE Spec2Model ----
(***************************************************************************)
(* Documentation crawler of package-documentation-mcp: the file cache      *)
(* (CacheService), page resolution and the bounded breadth-first crawl     *)
(* (ScraperService), and the crawl-and-compile entry point.                *)
(*                                                                         *)
(* Strings are sequences of character codes (all characters used are       *)
(* ASCII, so the UTF-8 bytes of Buffer.from(url) are the codes).           *)
(***************************************************************************)
EXTENDS Integers, Sequences, FiniteSets, TLC

(***************************************************************************)
(* Bounds of the model.                                                    *)
(***************************************************************************)
\* total page budget a run hands out over all its requests (a request
\* with budget 0 counts as 1)
MaxBudget == 2
\* links one fetched page may carry
MaxLinks == 3
\* clock advances per run
MaxTicks == 1
\* I/O errors of the cache directory per run
MaxFaults == 1
\* direct calls of the cache per run
MaxCalls == 2
\* languages in one call of fetch-multilingual-docs
MaxLanguages == 2
MaxPagesCompiled == 2
MaxAnchors == 2
\* requests one server process is sent
MaxRequests == 2
\* page budget of one of these requests
MaxServerPages == 3

(***************************************************************************)
(* String helpers (JavaScript String methods on code sequences).           *)
(***************************************************************************)
Range(s) == {s[i] : i \in DOMAIN s}

NoDuplicates(s) == \A i, j \in DOMAIN s : i # j => s[i] # s[j]

\* s.startsWith(p)
StartsWith(s, p) == Len(s) >= Len(p) /\ SubSeq(s, 1, Len(p)) = p

\* s.indexOf(p) + 1 (0 when p does not occur)
IndexOf(s, p) ==
    LET hits == {i \in 1..(Len(s) - Len(p) + 1) : SubSeq(s, i, i + Len(p) - 1) = p}
    IN  IF hits = {} THEN 0 ELSE CHOOSE i \in hits : \A j \in hits : i <= j

\* s.includes(p)
Includes(s, p) == IndexOf(s, p) # 0

\* s.split(sep)[0]
SplitFirst(s, sep) ==
    IF Includes(s, sep) THEN SubSeq(s, 1, IndexOf(s, sep) - 1) ELSE s

\* s.split(sep)[1]; the caller checks Includes(s, sep), undefined otherwise
SplitSecond(s, sep) ==
    SplitFirst(SubSeq(s, IndexOf(s, sep) + Len(sep), Len(s)), sep)

\* s.split(sep), all the pieces
RECURSIVE Split(_, _)
Split(s, sep) ==
    IF Includes(s, sep)
    THEN <<SubSeq(s, 1, IndexOf(s, sep) - 1)>>
         \o Split(SubSeq(s, IndexOf(s, sep) + Len(sep), Len(s)), sep)
    ELSE <<s>>

Slash == <<47>>

(***************************************************************************)
(* Buffer.from(url).toString("base64"): the standard alphabet with "+",    *)
(* "/" and "=" padding.                                                    *)
(***************************************************************************)
Base64Alphabet ==
    <<65, 66, 67, 68, 69, 70, 71, 72, 73, 74, 75, 76, 77, 78, 79, 80, 81, 82,
      83, 84, 85, 86, 87, 88, 89, 90, 97, 98, 99, 100, 101, 102, 103, 104,
      105, 106, 107, 108, 109, 110, 111, 112, 113, 114, 115, 116, 117, 118,
      119, 120, 121, 122, 48, 49, 50, 51, 52, 53, 54, 55, 56, 57, 43, 47>>

Base64Pad == <<61>>

Sextet(n) == <<Base64Alphabet[n + 1]>>

RECURSIVE toBase64(_)
toBase64(bytes) ==
    IF Len(bytes) = 0 THEN <<>>
    ELSE IF Len(bytes) = 1 THEN
        Sextet(bytes[1] \div 4) \o Sextet((bytes[1] % 4) * 16)
        \o Base64Pad \o Base64Pad
    ELSE IF Len(bytes) = 2 THEN
        Sextet(bytes[1] \div 4)
        \o Sextet((bytes[1] % 4) * 16 + bytes[2] \div 16)
        \o Sextet((bytes[2] % 16) * 4) \o Base64Pad
    ELSE
        Sextet(bytes[1] \div 4)
        \o Sextet((bytes[1] % 4) * 16 + bytes[2] \div 16)
        \o Sextet((bytes[2] % 16) * 4 + bytes[3] \div 64)
        \o Sextet(bytes[3] % 64)
        \o toBase64(SubSeq(bytes, 4, Len(bytes)))

cacheKey(url) == toBase64(url)

JsonSuffix == <<46, 106, 115, 111, 110>>


\* the directories that exist below DOCS_CACHE_DIR, as component paths: the
\* module creates DOCS_CACHE_DIR itself and nothing else
DOCS_CACHE_DIR == {<<>>}

Http == <<104, 116, 116, 112>>

NpmPrefix ==
    <<104, 116, 116, 112, 115, 58, 47, 47, 119, 119, 119, 46, 110, 112, 109,
      106, 115, 46, 99, 111, 109, 47, 112, 97, 99, 107, 97, 103, 101, 47>>

(***************************************************************************)
(* The inputs of the model: the URLs of one documentation site (host h),   *)
(* a URL of another host, and a package name.                              *)
(***************************************************************************)
\* http://h/a
UrlA == <<104, 116, 116, 112, 58, 47, 47, 104, 47, 97>>

\* http://h/b
UrlB == <<104, 116, 116, 112, 58, 47, 47, 104, 47, 98>>

\* http://h/c
UrlC == <<104, 116, 116, 112, 58, 47, 47, 104, 47, 99>>

\* http://h/do?x
UrlQ == <<104, 116, 116, 112, 58, 47, 47, 104, 47, 100, 111, 63, 120>>

\* https://github.com
UrlGithub ==
    <<104, 116, 116, 112, 115, 58, 47, 47, 103, 105, 116, 104, 117, 98, 46,
      99, 111, 109>>

\* http://h/b#x and http://h/b#y: two places of the page http://h/b
UrlBx == UrlB \o <<35, 120>>

UrlBy == UrlB \o <<35, 121>>

\* the package name "ab"
PackageAb == <<97, 98>>

SiteUrls == {UrlA, UrlB, UrlC, UrlQ}

RequestInputs == {UrlA, UrlQ, UrlGithub, PackageAb}

\* the seed URLs the inputs stand for
SeedUrls ==
    {IF StartsWith(input, Http) THEN input ELSE NpmPrefix \o input :
        input \in RequestInputs}

\* the pages of the site that other pages link to
LinkedUrls == {UrlA, UrlB, UrlC}

\* path.join(DOCS_CACHE_DIR, `${cacheKey}.json`) of every URL of the
\* model, as the path components below DOCS_CACHE_DIR
CachePaths ==
    [u \in SiteUrls \cup SeedUrls \cup {UrlBx, UrlBy} |->
        Split(cacheKey(u) \o JsonSuffix, Slash)]

cachePath(url) == CachePaths[url]

(***************************************************************************)
(* Clock and timestamps.  Times are milliseconds since the epoch.          *)
(***************************************************************************)
TTL == 24 * 60 * 60 * 1000

DayMs == 24 * 60 * 60 * 1000

\* new Date(ms).toISOString(): the fields of "YYYY-MM-DDTHH:mm:ss.sssZ"
\* (the date as a day number)
toISOString(ms) ==
    [day |-> ms \div DayMs,
     hh  |-> (ms % DayMs) \div 3600000,
     mm  |-> (ms % 3600000) \div 60000,
     ss  |-> (ms % 60000) \div 1000,
     sss |-> ms % 1000]

\* new Date(ts).getTime() of such a string
getTime(ts) ==
    (((ts.day * 24 + ts.hh) * 60 + ts.mm) * 60 + ts.ss) * 1000 + ts.sss

(***************************************************************************)
(* Page records and their serialisation.                                   *)
(***************************************************************************)
Null == [null |-> TRUE]

\* the processedPage object literal of fetchAndProcessPage; the pages of
\* the site have their URL as title, no content and no code
ProcessedPage(u, ls, clock) ==
    [url |-> u, title |-> u, content |-> <<>>, links |-> ls,
     codeExamples |-> <<>>, apiSignatures |-> <<>>,
     timestamp |-> toISOString(clock)]

\* JSON.stringify(page, null, 2): the text of a file
JSONstringify(page) == [json |-> page]

\* a file whose text JSON.parse rejects
Unparseable == [garbage |-> TRUE]

\* JSON.parse(cacheData) throws on such a text
JSONparseThrows(text) == "json" \notin DOMAIN text

JSONparse(text) == text.json

\* (a slip: <= in place of <)
cacheIsValid_inclusive(cachedPage, clock) ==
    /\ "timestamp" \in DOMAIN cachedPage
    /\ clock - getTime(cachedPage.timestamp) <= TTL

\* cacheAge < 24 * 60 * 60 * 1000; a missing timestamp gives NaN, and
\* every comparison with NaN is false
cacheIsValid(cachedPage, clock) ==
    /\ "timestamp" \in DOMAIN cachedPage
    /\ clock - getTime(cachedPage.timestamp) < TTL

\* CacheService.getPage; readFails: readFileSync throws
getPage(u, fs, clock, readFails) ==
    IF cachePath(u) \in DOMAIN fs
    THEN IF readFails \/ JSONparseThrows(fs[cachePath(u)])
         THEN Null
         ELSE IF cacheIsValid(JSONparse(fs[cachePath(u)]), clock)
              THEN JSONparse(fs[cachePath(u)])
              ELSE Null
    ELSE Null

\* fs.writeFileSync(cachePath, text): ENOENT unless the directory of the
\* path exists; writeFails: any other I/O error
writeFileSyncThrows(path, writeFails) ==
    writeFails \/ SubSeq(path, 1, Len(path) - 1) \notin DOCS_CACHE_DIR

\* (a slip: a file that exists is kept)
setPage_keepsFirst(u, page, fs, writeFails) ==
    IF writeFileSyncThrows(cachePath(u), writeFails)
       \/ cachePath(u) \in DOMAIN fs
    THEN [files |-> fs, threw |-> FALSE]
    ELSE [files |-> [p \in DOMAIN fs \cup {cachePath(u)} |->
                        IF p = cachePath(u) THEN JSONstringify(page)
                        ELSE fs[p]],
          threw |-> FALSE]

\* (a slip: the catch block unlinks the file of the URL)
setPage_unlinksOnError(u, page, fs, writeFails) ==
    IF writeFileSyncThrows(cachePath(u), writeFails)
    THEN [files |-> [p \in DOMAIN fs \ {cachePath(u)} |-> fs[p]],
          threw |-> FALSE]
    ELSE [files |-> [p \in DOMAIN fs \cup {cachePath(u)} |->
                        IF p = cachePath(u) THEN JSONstringify(page)
                        ELSE fs[p]],
          threw |-> FALSE]

\* (a slip: no try/catch around writeFileSync)
setPage_rethrows(u, page, fs, writeFails) ==
    IF writeFileSyncThrows(cachePath(u), writeFails)
    THEN [files |-> fs, threw |-> TRUE]
    ELSE [files |-> [p \in DOMAIN fs \cup {cachePath(u)} |->
                        IF p = cachePath(u) THEN JSONstringify(page)
                        ELSE fs[p]],
          threw |-> FALSE]

\* CacheService.setPage: the files afterwards, and whether it threw
setPage(u, page, fs, writeFails) ==
    IF writeFileSyncThrows(cachePath(u), writeFails)
    THEN [files |-> fs, threw |-> FALSE]
    ELSE [files |-> [p \in DOMAIN fs \cup {cachePath(u)} |->
                        IF p = cachePath(u) THEN JSONstringify(page)
                        ELSE fs[p]],
          threw |-> FALSE]

(***************************************************************************)
(* extractLibraryName (utils/packageRepository).                           *)
(***************************************************************************)
\* the (host marker, split separator) pairs of the if-chain, in its order
RepositoryPatterns ==
    << \* npmjs.com/package/ , /package/
       <<<<110, 112, 109, 106, 115, 46, 99, 111, 109, 47, 112, 97, 99, 107,
           97, 103, 101, 47>>,
         <<47, 112, 97, 99, 107, 97, 103, 101, 47>>>>,
       \* pypi.org/project/ , /project/
       <<<<112, 121, 112, 105, 46, 111, 114, 103, 47, 112, 114, 111, 106,
           101, 99, 116, 47>>,
         <<47, 112, 114, 111, 106, 101, 99, 116, 47>>>>,
       \* nuget.org/packages/ , /packages/
       <<<<110, 117, 103, 101, 116, 46, 111, 114, 103, 47, 112, 97, 99, 107,
           97, 103, 101, 115, 47>>,
         <<47, 112, 97, 99, 107, 97, 103, 101, 115, 47>>>>,
       \* rubygems.org/gems/ , /gems/
       <<<<114, 117, 98, 121, 103, 101, 109, 115, 46, 111, 114, 103, 47, 103,
           101, 109, 115, 47>>,
         <<47, 103, 101, 109, 115, 47>>>>,
       \* packagist.org/packages/ , /packages/
       <<<<112, 97, 99, 107, 97, 103, 105, 115, 116, 46, 111, 114, 103, 47,
           112, 97, 99, 107, 97, 103, 101, 115, 47>>,
         <<47, 112, 97, 99, 107, 97, 103, 101, 115, 47>>>>,
       \* crates.io/crates/ , /crates/
       <<<<99, 114, 97, 116, 101, 115, 46, 105, 111, 47, 99, 114, 97, 116,
           101, 115, 47>>,
         <<47, 99, 114, 97, 116, 101, 115, 47>>>>,
       \* pkg.go.dev/ , pkg.go.dev/
       <<<<112, 107, 103, 46, 103, 111, 46, 100, 101, 118, 47>>,
         <<112, 107, 103, 46, 103, 111, 46, 100, 101, 118, 47>>>>,
       \* cocoapods.org/pods/ , /pods/
       <<<<99, 111, 99, 111, 97, 112, 111, 100, 115, 46, 111, 114, 103, 47,
           112, 111, 100, 115, 47>>,
         <<47, 112, 111, 100, 115, 47>>>>,
       \* mvnrepository.com/artifact/ , /artifact/
       <<<<109, 118, 110, 114, 101, 112, 111, 115, 105, 116, 111, 114, 121,
           46, 99, 111, 109, 47, 97, 114, 116, 105, 102, 97, 99, 116, 47>>,
         <<47, 97, 114, 116, 105, 102, 97, 99, 116, 47>>>> >>

GithubCom == <<103, 105, 116, 104, 117, 98, 46, 99, 111, 109>>

GithubComSlash == <<103, 105, 116, 104, 117, 98, 46, 99, 111, 109, 47>>

\* the first branch of the if-chain that u takes (0: none of the nine)
RepositoryBranch(u) ==
    LET hits == {i \in DOMAIN RepositoryPatterns :
                    Includes(u, RepositoryPatterns[i][1])}
    IN  IF hits = {} THEN 0 ELSE CHOOSE i \in hits : \A j \in hits : i <= j

\* url.split("github.com/")[1] is undefined, and .split of it throws a
\* TypeError, when the URL contains "github.com" but not "github.com/"
extractLibraryNameThrows(u) ==
    /\ RepositoryBranch(u) = 0
    /\ Includes(u, GithubCom)
    /\ ~Includes(u, GithubComSlash)

extractLibraryName(u) ==
    IF RepositoryBranch(u) # 0
    THEN SplitFirst(SplitSecond(u, RepositoryPatterns[RepositoryBranch(u)][2]),
                    Slash)
    ELSE IF Includes(u, GithubCom)
         THEN LET parts == Split(SplitSecond(u, GithubComSlash), Slash)
              IN  IF Len(parts) >= 2 THEN parts[2] ELSE u
         ELSE u

(***************************************************************************)
(* getPackageUrl (utils/packageRepository).                                *)
(***************************************************************************)
\* s.toLowerCase(), on ASCII
toLowerCase(s) ==
    [i \in DOMAIN s |-> IF s[i] \in 65..90 THEN s[i] + 32 ELSE s[i]]

\* the ASCII characters that trim() removes
WhiteSpace == {9, 10, 11, 12, 13, 32}

\* (a slip: nothing removed)
trim_none(s) == s

\* s.trim()
trim(s) ==
    LET kept == {i \in DOMAIN s : s[i] \notin WhiteSpace}
    IN  IF kept = {} THEN <<>>
        ELSE SubSeq(s, CHOOSE i \in kept : \A j \in kept : i <= j,
                       CHOOSE i \in kept : \A j \in kept : j <= i)

\* the value of a parameter that the caller left out: no string
undefined == <<-1>>

\* "javascript", the default of the language parameter
DefaultLanguage ==
    <<106, 97, 118, 97, 115, 99, 114, 105, 112, 116>>

\* the switch of getPackageUrl in the order of its cases: the labels of
\* each group and the URL its return statement starts with
PackageRepositories ==
  <<
    \* JavaScript/TypeScript: https://www.npmjs.com/package/
    [cases |-> {
         \* javascript
         <<106, 97, 118, 97, 115, 99, 114, 105, 112, 116>>,
         \* js
         <<106, 115>>,
         \* typescript
         <<116, 121, 112, 101, 115, 99, 114, 105, 112, 116>>,
         \* ts
         <<116, 115>>,
         \* node
         <<110, 111, 100, 101>>,
         \* nodejs
         <<110, 111, 100, 101, 106, 115>>,
         \* npm
         <<110, 112, 109>>},
     base |->
       <<104, 116, 116, 112, 115, 58, 47, 47, 119, 119, 119, 46, 110, 112,
          109, 106, 115, 46, 99, 111, 109, 47, 112, 97, 99, 107, 97, 103,
          101, 47>>],
    \* Python: https://pypi.org/project/
    [cases |-> {
         \* python
         <<112, 121, 116, 104, 111, 110>>,
         \* py
         <<112, 121>>,
         \* pypi
         <<112, 121, 112, 105>>},
     base |->
       <<104, 116, 116, 112, 115, 58, 47, 47, 112, 121, 112, 105, 46, 111,
          114, 103, 47, 112, 114, 111, 106, 101, 99, 116, 47>>],
    \* Java: https://mvnrepository.com/artifact/
    [cases |-> {
         \* java
         <<106, 97, 118, 97>>,
         \* maven
         <<109, 97, 118, 101, 110>>},
     base |->
       <<104, 116, 116, 112, 115, 58, 47, 47, 109, 118, 110, 114, 101, 112,
          111, 115, 105, 116, 111, 114, 121, 46, 99, 111, 109, 47, 97, 114,
          116, 105, 102, 97, 99, 116, 47>>],
    \* .NET: https://www.nuget.org/packages/
    [cases |-> {
         \* dotnet
         <<100, 111, 116, 110, 101, 116>>,
         \* .net
         <<46, 110, 101, 116>>,
         \* csharp
         <<99, 115, 104, 97, 114, 112>>,
         \* c#
         <<99, 35>>,
         \* nuget
         <<110, 117, 103, 101, 116>>},
     base |->
       <<104, 116, 116, 112, 115, 58, 47, 47, 119, 119, 119, 46, 110, 117,
          103, 101, 116, 46, 111, 114, 103, 47, 112, 97, 99, 107, 97, 103,
          101, 115, 47>>],
    \* Ruby: https://rubygems.org/gems/
    [cases |-> {
         \* ruby
         <<114, 117, 98, 121>>,
         \* gem
         <<103, 101, 109>>,
         \* rubygem
         <<114, 117, 98, 121, 103, 101, 109>>,
         \* rubygems
         <<114, 117, 98, 121, 103, 101, 109, 115>>},
     base |->
       <<104, 116, 116, 112, 115, 58, 47, 47, 114, 117, 98, 121, 103, 101,
          109, 115, 46, 111, 114, 103, 47, 103, 101, 109, 115, 47>>],
    \* PHP: https://packagist.org/packages/
    [cases |-> {
         \* php
         <<112, 104, 112>>,
         \* composer
         <<99, 111, 109, 112, 111, 115, 101, 114>>,
         \* packagist
         <<112, 97, 99, 107, 97, 103, 105, 115, 116>>},
     base |->
       <<104, 116, 116, 112, 115, 58, 47, 47, 112, 97, 99, 107, 97, 103,
          105, 115, 116, 46, 111, 114, 103, 47, 112, 97, 99, 107, 97, 103,
          101, 115, 47>>],
    \* Rust: https://crates.io/crates/
    [cases |-> {
         \* rust
         <<114, 117, 115, 116>>,
         \* cargo
         <<99, 97, 114, 103, 111>>,
         \* crate
         <<99, 114, 97, 116, 101>>,
         \* crates
         <<99, 114, 97, 116, 101, 115>>},
     base |->
       <<104, 116, 116, 112, 115, 58, 47, 47, 99, 114, 97, 116, 101, 115,
          46, 105, 111, 47, 99, 114, 97, 116, 101, 115, 47>>],
    \* Go: https://pkg.go.dev/
    [cases |-> {
         \* go
         <<103, 111>>,
         \* golang
         <<103, 111, 108, 97, 110, 103>>},
     base |->
       <<104, 116, 116, 112, 115, 58, 47, 47, 112, 107, 103, 46, 103, 111,
          46, 100, 101, 118, 47>>],
    \* Swift: https://cocoapods.org/pods/
    [cases |-> {
         \* swift
         <<115, 119, 105, 102, 116>>,
         \* cocoapods
         <<99, 111, 99, 111, 97, 112, 111, 100, 115>>},
     base |->
       <<104, 116, 116, 112, 115, 58, 47, 47, 99, 111, 99, 111, 97, 112,
          111, 100, 115, 46, 111, 114, 103, 47, 112, 111, 100, 115, 47>>]
  >>

\* the default: branch, npm
DefaultRepository == PackageRepositories[1].base

getPackageUrl(packageName, language) ==
    LET lang == trim(toLowerCase(IF language = undefined
                                 THEN DefaultLanguage ELSE language))
        hits == {i \in DOMAIN PackageRepositories :
                    lang \in PackageRepositories[i].cases}
    IN  IF hits = {}
        THEN DefaultRepository \o packageName
        ELSE PackageRepositories[CHOOSE i \in hits : TRUE].base
             \o packageName

(***************************************************************************)
(* URLs: new URL(input, base) of the WHATWG URL API, for http and https    *)
(* URLs without credentials, dot segments or characters that are percent-  *)
(* encoded, for the references an anchor can hold, and for URLs of schemes *)
(* that have no host (mailto:, javascript:).                               *)
(***************************************************************************)
SchemeSeparator == <<58, 47, 47>>

Colon == <<58>>

Hash == <<35>>

\* the index of the first character of s that is in cs (Len(s) + 1: none)
FirstOf(s, cs) ==
    LET hits == {i \in DOMAIN s : s[i] \in cs}
    IN  IF hits = {} THEN Len(s) + 1
        ELSE CHOOSE i \in hits : \A j \in hits : i <= j

\* the index of the last character of s that is in cs (0: none)
LastOf(s, cs) ==
    LET hits == {i \in DOMAIN s : s[i] \in cs}
    IN  IF hits = {} THEN 0
        ELSE CHOOSE i \in hits : \A j \in hits : j <= i

Letters == (65..90) \cup (97..122)

\* the input starts with a scheme: a letter, then letters, digits, + - .
\* up to a colon
HasScheme(s) ==
    LET c == FirstOf(s, {58})
    IN  /\ c <= Len(s)
        /\ c > 1
        /\ s[1] \in Letters
        /\ \A i \in 2..(c - 1) :
              s[i] \in Letters \cup (48..57) \cup {43, 45, 46}

Scheme(s) == toLowerCase(SubSeq(s, 1, FirstOf(s, {58}) - 1))

\* http and https, the schemes whose URLs have a host
HostSchemes == {<<104, 116, 116, 112>>, <<104, 116, 116, 112, 115>>}

InvalidURL == [invalid |-> TRUE]

\* the parts of an http(s) URL string with its two slashes
ParseHostURL(s) ==
    LET protocol  == Scheme(s)
        rest      == SubSeq(s, Len(protocol) + 4, Len(s))
        a         == FirstOf(rest, {47, 63, 35})
        authority == SubSeq(rest, 1, a - 1)
        tail      == SubSeq(rest, a, Len(rest))
        c         == FirstOf(authority, {58})
        h         == FirstOf(tail, {35})
        beforeHash == SubSeq(tail, 1, h - 1)
        q         == FirstOf(beforeHash, {63})
        path      == SubSeq(beforeHash, 1, q - 1)
    IN  IF c = 1 \/ authority = <<>>
        THEN InvalidURL
        ELSE [protocol |-> protocol,
              hostname |-> toLowerCase(SubSeq(authority, 1, c - 1)),
              port     |-> SubSeq(authority, c, Len(authority)),
              pathname |-> IF path = <<>> THEN Slash ELSE path,
              search   |-> SubSeq(beforeHash, q, Len(beforeHash)),
              hash     |-> SubSeq(tail, h, Len(tail))]

\* scheme://hostname[:port]
Origin(u) == u.protocol \o SchemeSeparator \o u.hostname \o u.port

\* the href property: the URL serialised
Href(u) ==
    IF "opaque" \in DOMAIN u
    THEN u.protocol \o Colon \o u.opaque
    ELSE Origin(u) \o u.pathname \o u.search \o u.hash

\* new URL(input) of an input that has a scheme
ParseAbsolute(s) ==
    IF Scheme(s) \in HostSchemes
    THEN IF StartsWith(SubSeq(s, Len(Scheme(s)) + 1, Len(s)),
                       SchemeSeparator)
         THEN ParseHostURL(s)
         ELSE InvalidURL
    ELSE [protocol |-> Scheme(s),
          hostname |-> <<>>,
          opaque   |-> SubSeq(s, Len(Scheme(s)) + 2, Len(s))]

\* new URL(input, base); base is undefined when the caller gives none
newURL(input, base) ==
    IF HasScheme(input)
    THEN ParseAbsolute(input)
    ELSE IF base = undefined \/ ~HasScheme(base)
         THEN InvalidURL
         ELSE LET b == ParseAbsolute(base)
              IN  IF "pathname" \notin DOMAIN b
                  THEN InvalidURL
                  ELSE IF StartsWith(input, <<47, 47>>)
                  THEN ParseHostURL(b.protocol \o Colon \o input)
                  ELSE IF StartsWith(input, Slash)
                  THEN ParseHostURL(Origin(b) \o input)
                  ELSE IF StartsWith(input, Hash)
                  THEN ParseHostURL(Origin(b) \o b.pathname \o b.search
                                    \o input)
                  ELSE IF StartsWith(input, <<63>>)
                  THEN ParseHostURL(Origin(b) \o b.pathname \o input)
                  ELSE IF input = <<>>
                  THEN ParseHostURL(Origin(b) \o b.pathname \o b.search)
                  ELSE ParseHostURL(
                          Origin(b)
                          \o SubSeq(b.pathname, 1, LastOf(b.pathname, {47}))
                          \o input)

\* the constructor throws a TypeError
newURLThrows(input, base) == newURL(input, base) = InvalidURL

\* isUrl (utils/packageRepository)
isUrl(str) == ~newURLThrows(str, undefined)

(***************************************************************************)
(* extractRelevantLinks (utils/extractors).  The page is the list of its   *)
(* a[href] elements in document order, each with its href and its text.    *)
(***************************************************************************)
apiKeywords ==
    <<
       \* api
       <<97, 112, 105>>,
       \* reference
       <<114, 101, 102, 101, 114, 101, 110, 99, 101>>,
       \* doc
       <<100, 111, 99>>,
       \* guide
       <<103, 117, 105, 100, 101>>,
       \* tutorial
       <<116, 117, 116, 111, 114, 105, 97, 108>>,
       \* example
       <<101, 120, 97, 109, 112, 108, 101>>,
       \* usage
       <<117, 115, 97, 103, 101>>,
       \* getting-started
       <<103, 101, 116, 116, 105, 110, 103, 45, 115, 116, 97, 114, 116,
          101, 100>>,
       \* introduction
       <<105, 110, 116, 114, 111, 100, 117, 99, 116, 105, 111, 110>>,
       \* started
       <<115, 116, 97, 114, 116, 101, 100>>
    >>

\* the isRelevant expression
isRelevant(linkPath, linkText, libraryNameLower) ==
    \/ \E k \in DOMAIN apiKeywords :
          Includes(linkPath, apiKeywords[k]) \/ Includes(linkText, apiKeywords[k])
    \/ Includes(linkPath, libraryNameLower)

\* links.add(absoluteUrl): a Set keeps the order of first insertion
SetAdd(links, link) ==
    IF link \in Range(links) THEN links ELSE Append(links, link)

\* (a slip: the hostname test left out)
sameHostname_any(urlObj, baseUrlObj) == TRUE

\* urlObj.hostname !== baseUrlObj.hostname, negated
sameHostname(urlObj, baseUrlObj) == urlObj.hostname = baseUrlObj.hostname

\* the body of the .each callback for one anchor: the links afterwards
eachAnchor(links, anchor, baseUrl, name) ==
    IF anchor.href = <<>> \/ newURLThrows(anchor.href, baseUrl)
    THEN links
    ELSE LET absoluteUrl == Href(newURL(anchor.href, baseUrl))
             urlObj      == newURL(absoluteUrl, undefined)
         IN  IF ~sameHostname(urlObj, newURL(baseUrl, undefined))
             THEN links
             ELSE IF "pathname" \in DOMAIN urlObj
                     /\ isRelevant(toLowerCase(urlObj.pathname),
                                   toLowerCase(anchor.text),
                                   toLowerCase(name))
                     /\ SplitFirst(absoluteUrl, Hash)
                          # SplitFirst(baseUrl, Hash)
                  THEN SetAdd(links, absoluteUrl)
                  ELSE links

RECURSIVE eachAnchors(_, _, _, _)
eachAnchors(links, anchors, baseUrl, name) ==
    IF anchors = <<>> THEN links
    ELSE eachAnchors(eachAnchor(links, Head(anchors), baseUrl, name),
                     Tail(anchors), baseUrl, name)

\* new URL(baseUrl) at the top of the function throws
extractRelevantLinksThrows(baseUrl) == newURLThrows(baseUrl, undefined)

extractRelevantLinks(anchors, baseUrl, name) ==
    eachAnchors(<<>>, anchors, baseUrl, name)

(***************************************************************************)
(* The pages of the site: what the crawl can find on them.                 *)
(***************************************************************************)
\* http://g/a, a page of another host
UrlOther == <<104, 116, 116, 112, 58, 47, 47, 103, 47, 97>>

\* #api, a fragment of the page that holds the anchor
FragmentApi == <<35, 97, 112, 105>>

\* the a[href] elements a page can hold, all with the text "api": to the
\* pages of the site, to the other host, and to the page itself
Anchors ==
    {[href |-> h, text |-> <<97, 112, 105>>] :
        h \in LinkedUrls \cup {UrlOther, FragmentApi}}

AnchorLists == UNION {[1..n -> Anchors] : n \in 0..MaxLinks}

\* the library names of the requests
LibraryNames ==
    {extractLibraryName(u) : u \in {v \in SeedUrls : ~extractLibraryNameThrows(v)}}

\* what extractRelevantLinks can return for page u in a crawl for name
LinkLists(u, name) ==
    IF extractRelevantLinksThrows(u) THEN {}
    ELSE {extractRelevantLinks(anchors, u, name) : anchors \in AnchorLists}

\* the same, tabulated: the page, the name, the lists
LinkTable ==
    {<<u, name, LinkLists(u, name)>> :
        u \in SiteUrls \cup SeedUrls, name \in LibraryNames}

LinkListsOf(u, name) ==
    (CHOOSE row \in LinkTable : row[1] = u /\ row[2] = name)[3]

AllLinkLists == UNION {row[3] : row \in LinkTable}

\* how far the clock advances between two requests
TickSteps == {TTL - 1, TTL}

(***************************************************************************)
(* State.                                                                  *)
(***************************************************************************)
VARIABLES
    pc,              \* idle, loop, fetching, resolved, exhausted, threw, done
    url,             \* fetchLibraryDocumentation: the seed URL
    libraryName,
    maxPages,
    skipCache,
    visitedUrls,     \* crawlDocumentation locals
    processedPages,
    urlsToVisit,
    currentUrl,
    processedPage,   \* what fetchAndProcessPage returned for currentUrl
    outcome,         \* what fetchLibraryDocumentation gave its caller
    files,           \* the files below DOCS_CACHE_DIR: path -> text
    now,             \* the clock, ms since the process started
    budgetLeft,      \* bookkeeping of the bounds
    ticks,
    faults,
    corrupted,
    calls,
    dequeued,        \* history: the URLs shifted off urlsToVisit
    resolved,        \* history: the URLs handed to fetchAndProcessPage
    fetched,         \* history: the URLs handed to fetch()
    failed,          \* history: the URLs whose resolution gave null
    lastGet,         \* history: the last getPage call
    lastPut,         \* history: the last setPage call
    fn,              \* a function or tool called on its own: its name,
    args,            \*   its arguments
    ret,             \*   and what it returned
    crawls           \* the crawls of a server that serves requests
                     \*   concurrently: request -> the locals of its crawl

crawlVars == <<url, libraryName, maxPages, skipCache, visitedUrls,
               processedPages, urlsToVisit, currentUrl, processedPage>>

histVars == <<dequeued, resolved, fetched, failed, lastGet, lastPut>>

boundVars == <<budgetLeft, ticks, faults, corrupted, calls>>

callVars == <<fn, args, ret>>

\* all that a function or tool called on its own leaves alone
serverVars == <<pc, crawlVars, outcome, files, now, boundVars, histVars,
                crawls>>

vars == <<serverVars, callVars>>

NoCall == [op |-> "none"]

\* the requests a server is sent
Requests == 1..MaxRequests

\* a request that was not sent yet
NoCrawl == [pc |-> "idle"]

NoOutcome == [kind |-> "none"]

\* no request is being served: the locals of the last one are gone
NoRequest ==
    /\ url = <<>>
    /\ libraryName = <<>>
    /\ maxPages = 0
    /\ skipCache = FALSE
    /\ visitedUrls = {}
    /\ processedPages = <<>>
    /\ urlsToVisit = <<>>
    /\ currentUrl = <<>>
    /\ processedPage = Null
    /\ outcome = NoOutcome
    /\ dequeued = <<>>
    /\ resolved = <<>>
    /\ fetched = <<>>
    /\ failed = {}
    /\ lastGet = NoCall
    /\ lastPut = NoCall

Init ==
    /\ pc = "idle"
    /\ NoRequest
    /\ files = [p \in {} |-> Unparseable]
    /\ now = 0
    /\ budgetLeft = MaxBudget
    /\ ticks = 0
    /\ faults = 0
    /\ corrupted = FALSE
    /\ calls = 0
    /\ fn = "none"
    /\ args = <<>>
    /\ ret = <<>>
    /\ crawls = [r \in Requests |-> NoCrawl]

(***************************************************************************)
(* crawlDocumentation.                                                     *)
(***************************************************************************)
\* (a slip: the loop runs once more when the budget is already met)
loopCondition_offByOne(frontier, pages, budget) ==
    Len(frontier) > 0 /\ Len(pages) <= budget

\* the while condition
loopCondition(frontier, pages, budget) ==
    Len(frontier) > 0 /\ Len(pages) < budget

\* (a slip: a URL counts as visited when its document was visited, the
\* fragment left aside)
markVisited_sameDocument(visited, u) ==
    visited \cup {u}
            \cup {v \in DOMAIN CachePaths :
                     SplitFirst(v, Hash) = SplitFirst(u, Hash)}

\* (a slip: the URL is not recorded)
markVisited_forgets(visited, u) == visited

\* visitedUrls.add(currentUrl)
markVisited(visited, u) == visited \cup {u}

\* (a slip: unshift, which makes the frontier a stack)
push_unshift(frontier, link) == <<link>> \o frontier

\* urlsToVisit.push(link)
push(frontier, link) == Append(frontier, link)

\* (a slip: every link of the page is pushed)
pushLinks_all(links, visited, frontier) == frontier \o links

\* the for loop over processedPage.links
RECURSIVE pushLinks(_, _, _)
pushLinks(links, visited, frontier) ==
    IF links = <<>> THEN frontier
    ELSE pushLinks(Tail(links), visited,
                   IF Head(links) \notin visited
                      /\ Head(links) \notin Range(frontier)
                   THEN push(frontier, Head(links))
                   ELSE frontier)

\* the server is idle and the bounds of the run allow another request
AcceptingRequests == pc = "idle" /\ budgetLeft > 0

\* fetchLibraryDocumentation up to the first pass of the crawl loop
FetchLibraryDocumentation(input, budget) ==
    /\ AcceptingRequests
    /\ budget <= budgetLeft
    /\ budgetLeft' = budgetLeft - (IF budget = 0 THEN 1 ELSE budget)
    /\ LET u == IF StartsWith(input, Http) THEN input ELSE NpmPrefix \o input
       IN  /\ url' = u
           /\ maxPages' = budget
           /\ skipCache' = FALSE
           /\ IF extractLibraryNameThrows(u)
              THEN \* thrown in the try block and again in the catch block
                   /\ libraryName' = <<>>
                   /\ urlsToVisit' = <<>>
                   /\ outcome' = [kind |-> "rejected", reason |-> "TypeError",
                                  url |-> <<>>]
                   /\ pc' = "done"
              ELSE /\ libraryName' = extractLibraryName(u)
                   /\ urlsToVisit' = <<u>>
                   /\ outcome' = NoOutcome
                   /\ pc' = "loop"
    /\ UNCHANGED <<callVars, crawls, visitedUrls, processedPages, currentUrl, processedPage,
                   files, now, ticks, faults, corrupted, calls, histVars>>

\* one pass of the loop up to the await of fetch(): shift, the visited
\* check, and the cache lookup of fetchAndProcessPage
Dequeue(readFails) ==
    /\ pc = "loop"
    /\ loopCondition(urlsToVisit, processedPages, maxPages)
    /\ readFails => /\ faults < MaxFaults
                    /\ ~skipCache
                    /\ Head(urlsToVisit) \notin visitedUrls
                    /\ cachePath(Head(urlsToVisit)) \in DOMAIN files
    /\ faults' = IF readFails THEN faults + 1 ELSE faults
    /\ currentUrl' = Head(urlsToVisit)
    /\ urlsToVisit' = Tail(urlsToVisit)
    /\ dequeued' = Append(dequeued, Head(urlsToVisit))
    /\ IF Head(urlsToVisit) \in visitedUrls
       THEN /\ pc' = "loop"
            /\ UNCHANGED <<visitedUrls, processedPage, resolved, fetched,
                           lastGet>>
       ELSE /\ visitedUrls' = markVisited(visitedUrls, Head(urlsToVisit))
            /\ resolved' = Append(resolved, Head(urlsToVisit))
            /\ IF skipCache
               THEN /\ processedPage' = Null
                    /\ pc' = "fetching"
                    /\ fetched' = Append(fetched, Head(urlsToVisit))
                    /\ UNCHANGED lastGet
               ELSE LET cachedPage ==
                            getPage(Head(urlsToVisit), files, now, readFails)
                    IN  /\ lastGet' = [op |-> "get", url |-> Head(urlsToVisit),
                                       result |-> cachedPage, at |-> now,
                                       ioError |-> readFails, put |-> lastPut]
                        /\ processedPage' = cachedPage
                        /\ IF cachedPage # Null
                           THEN pc' = "resolved" /\ fetched' = fetched
                           ELSE /\ pc' = "fetching"
                                /\ fetched' = Append(fetched, Head(urlsToVisit))
    /\ UNCHANGED <<callVars, crawls, url, libraryName, maxPages, skipCache, processedPages,
                   outcome, files, now, budgetLeft, ticks, corrupted, calls,
                   failed, lastPut>>

\* fetch() and the parsing succeed: the record is built, cached, returned
FetchSucceeds(links, writeFails) ==
    /\ pc = "fetching"
    /\ links \in LinkListsOf(currentUrl, libraryName)
    /\ writeFails => faults < MaxFaults
    /\ faults' = IF writeFails THEN faults + 1 ELSE faults
    /\ LET page == ProcessedPage(currentUrl, links, now)
           put  == setPage(currentUrl, page, files, writeFails)
       IN  /\ files' = put.files
           /\ lastPut' = [op |-> "put", url |-> currentUrl, page |-> page,
                          at |-> now, ioError |-> writeFails]
           /\ processedPage' = IF put.threw THEN Null ELSE page
           /\ failed' = IF put.threw THEN failed \cup {currentUrl} ELSE failed
    /\ pc' = "resolved"
    /\ UNCHANGED <<callVars, crawls, url, libraryName, maxPages, skipCache, visitedUrls,
                   processedPages, urlsToVisit, currentUrl, outcome, now,
                   budgetLeft, ticks, corrupted, calls, dequeued, resolved,
                   fetched, lastGet>>

\* fetch() or the parsing throws: the catch block returns null
FetchFails ==
    /\ pc = "fetching"
    /\ processedPage' = Null
    /\ failed' = failed \cup {currentUrl}
    /\ pc' = "resolved"
    /\ UNCHANGED <<callVars, crawls, url, libraryName, maxPages, skipCache, visitedUrls,
                   processedPages, urlsToVisit, currentUrl, outcome, files,
                   now, boundVars, dequeued, resolved, fetched, lastGet,
                   lastPut>>

\* the rest of the pass: push the page and its new links; iterating a
\* record without a links array throws a TypeError out of the crawl
Accept ==
    /\ pc = "resolved"
    /\ IF processedPage = Null
       THEN pc' = "loop" /\ UNCHANGED <<processedPages, urlsToVisit>>
       ELSE /\ processedPages' = Append(processedPages, processedPage)
            /\ IF "links" \in DOMAIN processedPage
               THEN /\ urlsToVisit' = pushLinks(processedPage.links,
                                                visitedUrls, urlsToVisit)
                    /\ pc' = "loop"
               ELSE pc' = "threw" /\ UNCHANGED urlsToVisit
    /\ UNCHANGED <<callVars, crawls, url, libraryName, maxPages, skipCache, visitedUrls,
                   currentUrl, processedPage, outcome, files, now, boundVars,
                   histVars>>

\* the loop condition fails: return processedPages
CrawlReturns ==
    /\ pc = "loop"
    /\ ~loopCondition(urlsToVisit, processedPages, maxPages)
    /\ pc' = "exhausted"
    /\ UNCHANGED <<callVars, crawls, crawlVars, outcome, files, now, boundVars, histVars>>

(***************************************************************************)
(* fetchLibraryDocumentation after the crawl.                              *)
(***************************************************************************)
\* title.toLowerCase().replace(/[^a-z0-9]+/g, "-"), from character i on
RECURSIVE slug(_, _)
slug(title, i) ==
    LET l == toLowerCase(title)
        alnum(c) == c \in (48..57) \cup (97..122)
    IN  IF i > Len(l) THEN <<>>
        ELSE IF alnum(l[i]) THEN <<l[i]>> \o slug(title, i + 1)
        ELSE IF i > 1 /\ ~alnum(l[i - 1]) THEN slug(title, i + 1)
        ELSE <<45>> \o slug(title, i + 1)

HeadingNames == <<"h1", "h2", "h3", "h4", "h5", "h6">>

\* "#".repeat(level + 1) followed by a blank, for level 1 to 6
HeadingMarks == <<"## ", "### ", "#### ", "##### ", "###### ", "####### ">>

\* the elements whose text is added below a heading
ContentNames == {"p", "ul", "ol", "pre", "code", "table"}

\* the lines for the content of a page.  The content is the list of its
\* top-level elements, each with its name and its text
RECURSIVE contentLines(_, _)
contentLines(content, i) ==
    LET isHeading(e) == e.name \in Range(HeadingNames)
        level(e) == CHOOSE n \in DOMAIN HeadingNames : HeadingNames[n] = e.name
        \* the siblings after element i up to the next heading
        stop == IF \E j \in (i + 1)..Len(content) : isHeading(content[j])
                THEN CHOOSE j \in (i + 1)..Len(content) :
                        /\ isHeading(content[j])
                        /\ \A k \in (i + 1)..(j - 1) : ~isHeading(content[k])
                ELSE Len(content) + 1
        below == SelectSeq(SubSeq(content, i + 1, stop - 1),
                           LAMBDA e : e.name \in ContentNames)
    IN  IF i > Len(content) THEN <<>>
        ELSE IF ~isHeading(content[i]) THEN contentLines(content, i + 1)
        ELSE <<[md |-> HeadingMarks[level(content[i])],
                text |-> content[i].text]>>
             \o (IF below = <<>> THEN <<>>
                 ELSE <<[md |-> "",
                         text |-> [k \in DOMAIN below |-> below[k].text]]>>)
             \o contentLines(content, i + 1)

\* (a slip: a separator after every page)
separatorDue_always(index, length) == index < length

\* index < pages.length - 1, index counted from 0
separatorDue(index, length) == index < length - 1

\* the lines of the second forEach for the page at index (from 0)
pageLines(page, index, length) ==
    <<[md |-> "## ", text |-> page.title],
      [md |-> "Source: ", text |-> page.url]>>
    \o (IF \E i \in DOMAIN page.content :
              page.content[i].name \in Range(HeadingNames)
        THEN contentLines(page.content, 1)
        ELSE <<[md |-> "",
                text |-> [k \in DOMAIN page.content |->
                             page.content[k].text]]>>)
    \o (IF Len(page.codeExamples) > 0
        THEN <<[md |-> "### Code Examples"]>>
             \o [k \in DOMAIN page.codeExamples |->
                    [md |-> "fence", example |-> page.codeExamples[k]]]
        ELSE <<>>)
    \o (IF Len(page.apiSignatures) > 0
        THEN <<[md |-> "### API Reference"]>>
             \o [k \in DOMAIN page.apiSignatures |->
                    [md |-> "#### ", api |-> page.apiSignatures[k]]]
        ELSE <<>>)
    \o (IF separatorDue(index, length) THEN <<[md |-> "---"]>> ELSE <<>>)

RECURSIVE eachPage(_, _)
eachPage(pages, i) ==
    IF i > Len(pages) THEN <<>>
    ELSE pageLines(pages[i], i - 1, Len(pages)) \o eachPage(pages, i + 1)

\* (a slip: the time of the compilation in the title line too)
titleLine_stamped(name, clock) ==
    [md |-> "# ", text |-> name, tail |-> toISOString(clock)]

\* the first line of the document
titleLine(name, clock) ==
    [md |-> "# ", text |-> name, tail |-> " Documentation"]

\* compileDocumentation: the document as the list of its lines, each with
\* the markdown it starts with and the text put into it; clock is what
\* new Date() reads
compileDocumentation(pages, name, clock) ==
    <<titleLine(name, clock),
      [md |-> "## Documentation Overview"],
      [md |-> "Library Name: ", text |-> name],
      [md |-> "Pages Analyzed: ", text |-> Len(pages)],
      [md |-> "Generated: ", text |-> toISOString(clock)],
      [md |-> "## Table of Contents"]>>
    \o [i \in DOMAIN pages |->
           [md |-> "toc", index |-> i, text |-> pages[i].title,
            anchor |-> slug(pages[i].title, 1)]]
    \o eachPage(pages, 1)
    \o <<[md |-> "## Instructions for Summarization"]>>

\* the value fetchLibraryDocumentation resolves to
Result(state, pages, seed, name, clock) ==
    IF state = "threw"
    THEN [kind |-> "error", reason |-> "TypeError", url |-> <<>>]
    ELSE IF Len(pages) = 0
         THEN [kind |-> "error",
               reason |-> "Failed to fetch documentation from",
               url |-> seed]
         ELSE [kind |-> "document",
               document |-> compileDocumentation(pages, name, clock)]

Finish ==
    /\ pc \in {"exhausted", "threw"}
    /\ outcome' = Result(pc, processedPages, url, libraryName, now)
    /\ pc' = "done"
    /\ UNCHANGED <<callVars, crawls, crawlVars, files, now, boundVars, histVars>>

\* the caller has the outcome; the request and its locals are gone
Reply ==
    /\ pc = "done"
    /\ pc' = "idle"
    /\ url' = <<>>
    /\ libraryName' = <<>>
    /\ maxPages' = 0
    /\ skipCache' = FALSE
    /\ visitedUrls' = {}
    /\ processedPages' = <<>>
    /\ urlsToVisit' = <<>>
    /\ currentUrl' = <<>>
    /\ processedPage' = Null
    /\ outcome' = NoOutcome
    /\ dequeued' = <<>>
    /\ resolved' = <<>>
    /\ fetched' = <<>>
    /\ failed' = {}
    /\ lastGet' = NoCall
    /\ lastPut' = NoCall
    /\ UNCHANGED <<callVars, crawls, files, now, boundVars>>

(***************************************************************************)
(* The environment: time passes; the cache directory is shared storage     *)
(* that may hold a truncated or schema-incompatible file.                  *)
(***************************************************************************)
\* time passes between two requests
Tick(d) ==
    /\ AcceptingRequests
    /\ budgetLeft < MaxBudget
    /\ ticks < MaxTicks
    /\ ticks' = ticks + 1
    /\ now' = now + d
    /\ UNCHANGED <<callVars, crawls, pc, crawlVars, outcome, files, budgetLeft, faults,
                   corrupted, calls, histVars>>

\* the texts a damaged or foreign cache file can have for URL u
BadTexts(u, clock) ==
    {Unparseable,
     JSONstringify([url |-> u]),
     JSONstringify([url |-> u, timestamp |-> toISOString(clock)])}

AllBadTexts(clock) == UNION {BadTexts(u, clock) : u \in SiteUrls \cup SeedUrls}

\* the file of the URL that the crawl looks up next is damaged (a damaged
\* file shows only in the next lookup of its URL)
CorruptCacheFile(text) ==
    /\ pc = "loop"
    /\ loopCondition(urlsToVisit, processedPages, maxPages)
    /\ ~corrupted
    /\ ~skipCache
    /\ Len(cachePath(Head(urlsToVisit))) = 1
    /\ text \in BadTexts(Head(urlsToVisit), now)
    /\ corrupted' = TRUE
    /\ files' = [p \in DOMAIN files \cup {cachePath(Head(urlsToVisit))} |->
                    IF p = cachePath(Head(urlsToVisit)) THEN text
                    ELSE files[p]]
    /\ UNCHANGED <<callVars, crawls, pc, crawlVars, outcome, now, budgetLeft, ticks, faults,
                   calls, histVars>>

Next ==
    \/ \E input \in RequestInputs, budget \in 0..MaxBudget :
          FetchLibraryDocumentation(input, budget)
    \/ \E readFails \in BOOLEAN : Dequeue(readFails)
    \/ \E links \in AllLinkLists, writeFails \in BOOLEAN :
          FetchSucceeds(links, writeFails)
    \/ FetchFails
    \/ Accept
    \/ CrawlReturns
    \/ Finish
    \/ Reply
    \/ \E d \in TickSteps : Tick(d)
    \/ \E text \in AllBadTexts(now) : CorruptCacheFile(text)

Spec == Init /\ [][Next]_vars

\* every fetch and every cache operation returns or fails, and the event
\* loop runs what is runnable; nothing obliges a caller to send a request.
\* Each step of a running request (Dequeue, FetchSucceeds, FetchFails,
\* Accept, CrawlReturns, Finish) moves pc, one of them is enabled at every
\* position of Running, and no other action moves pc from there.
Running == {"loop", "fetching", "resolved", "exhausted", "threw"}

Positions == Running \cup {"idle", "done"}

CrawlStep ==
    /\ pc \in Running
    /\ pc' \in Positions \ {pc}

FairSpec == Spec /\ WF_pc(CrawlStep)

(***************************************************************************)
(* The cache on its own: getPage and setPage called directly.              *)
(***************************************************************************)
CacheUrls == {UrlA, UrlQ}

CacheLinks == {<<>>, <<UrlB>>}

SetPageCall(u, links, writeFails) ==
    /\ pc = "idle"
    /\ calls < MaxCalls
    /\ calls' = calls + 1
    /\ writeFails => faults < MaxFaults
    /\ faults' = IF writeFails THEN faults + 1 ELSE faults
    /\ files' = setPage(u, ProcessedPage(u, links, now), files, writeFails).files
    /\ lastPut' = [op |-> "put", url |-> u,
                   page |-> ProcessedPage(u, links, now),
                   at |-> now, ioError |-> writeFails]
    /\ lastGet' = NoCall
    /\ UNCHANGED <<callVars, crawls, pc, crawlVars, outcome, now, budgetLeft, ticks, corrupted,
                   dequeued, resolved, fetched, failed>>

GetPageCall(u, readFails) ==
    /\ pc = "idle"
    /\ calls < MaxCalls
    /\ calls' = calls + 1
    /\ readFails => faults < MaxFaults /\ cachePath(u) \in DOMAIN files
    /\ faults' = IF readFails THEN faults + 1 ELSE faults
    /\ lastGet' = [op |-> "get", url |-> u,
                   result |-> getPage(u, files, now, readFails), at |-> now,
                   ioError |-> readFails, put |-> lastPut]
    /\ UNCHANGED <<callVars, crawls, pc, crawlVars, outcome, files, now, budgetLeft, ticks,
                   corrupted, dequeued, resolved, fetched, failed, lastPut>>

CacheTick(d) ==
    /\ pc = "idle"
    /\ ticks < MaxTicks
    /\ ticks' = ticks + 1
    /\ now' = now + d
    /\ UNCHANGED <<callVars, crawls, pc, crawlVars, outcome, files, budgetLeft, faults,
                   corrupted, calls, histVars>>

CacheCorrupt(u, text) ==
    /\ pc = "idle"
    /\ ~corrupted
    /\ calls < MaxCalls
    /\ Len(cachePath(u)) = 1
    /\ text \in BadTexts(u, now)
    /\ corrupted' = TRUE
    /\ files' = [p \in DOMAIN files \cup {cachePath(u)} |->
                    IF p = cachePath(u) THEN text ELSE files[p]]
    /\ lastPut' = IF lastPut.op = "put" /\ lastPut.url = u
                  THEN NoCall ELSE lastPut
    /\ UNCHANGED <<callVars, crawls, pc, crawlVars, outcome, now, budgetLeft, ticks, faults,
                   calls, dequeued, resolved, fetched, failed, lastGet>>

CacheNext ==
    \/ \E u \in CacheUrls, links \in CacheLinks, writeFails \in BOOLEAN :
          SetPageCall(u, links, writeFails)
    \/ \E u \in CacheUrls, readFails \in BOOLEAN : GetPageCall(u, readFails)
    \/ \E d \in TickSteps : CacheTick(d)
    \/ \E u \in CacheUrls : \E text \in BadTexts(u, now) : CacheCorrupt(u, text)

CacheSpec == Init /\ [][CacheNext]_vars

(***************************************************************************)
(* The tools (examples/CursorAdapter, index).  A tool is called on its own *)
(* and the crawl below it is given by how it ended.                        *)
(***************************************************************************)
\* how crawlDocumentation ended: it returned no page, it returned one
\* page, or it threw
CrawlEnds == {"no page", "one page", "threw"}

\* the state the crawl ended in and its page list
CrawlState(end) == IF end = "threw" THEN "threw" ELSE "exhausted"

CrawlPages(end, seed, clock) ==
    IF end = "one page" THEN <<ProcessedPage(seed, <<>>, clock)>> ELSE <<>>

\* what fetchLibraryDocumentation(input) gives its caller when the crawl
\* ended that way
fetchLibraryDocumentation(input, end, clock) ==
    LET u == IF StartsWith(input, Http) THEN input ELSE NpmPrefix \o input
    IN  IF extractLibraryNameThrows(u)
        THEN [kind |-> "rejected", reason |-> "TypeError", url |-> <<>>]
        ELSE Result(CrawlState(end), CrawlPages(end, u, clock), u,
                    extractLibraryName(u), clock)

\* content: [{ type: "text", text }]
TextContent(text) == <<[type |-> "text", text |-> text]>>

\* the try/catch that the handlers of fetch-url-docs, fetch-package-docs
\* and fetch-library-docs share: out is what the awaited call gave, prefix
\* the start of the errorMessage of the catch block
handler(prefix, out) ==
    IF out.kind = "rejected"
    THEN [content |-> TextContent([error |-> prefix, message |-> out.reason]),
          isError |-> TRUE]
    ELSE [content |-> TextContent(out)]

\* fetch-url-docs
fetchUrlDocs(u, end, clock) ==
    handler("Error fetching URL content: ",
            fetchLibraryDocumentation(u, end, clock))

\* the default of the language parameter of a handler and of getPackageUrl
languageOrDefault(language) ==
    IF language = undefined THEN DefaultLanguage ELSE language

\* fetch-package-docs
fetchPackageDocs(packageName, language, end, clock) ==
    handler("Error fetching package documentation: ",
            fetchLibraryDocumentation(
                getPackageUrl(packageName, languageOrDefault(language)),
                end, clock))

\* fetch-library-docs
fetchLibraryDocs(library, language, end, clock) ==
    handler("Error fetching library documentation: ",
            fetchLibraryDocumentation(
                IF isUrl(library) THEN library
                ELSE getPackageUrl(library, languageOrDefault(language)),
                end, clock))

\* the text of the error that fetch() rejects with
FetchErrorText == "fetch failed"

\* fetchUrlContent of index: fetchThrows says that fetch(url) or
\* response.text() rejected
fetchUrlContent(u, fetchThrows) ==
    IF fetchThrows
    THEN [kind |-> "error", reason |-> "Error fetching documentation from",
          url |-> u, message |-> FetchErrorText]
    ELSE [kind |-> "document", document |-> [source |-> u]]

NpmPackagePath ==
    <<110, 112, 109, 106, 115, 46, 99, 111, 109, 47, 112, 97, 99, 107, 97,
      103, 101, 47>>

\* the library name extraction of the handler of index, in its try block
\* and again in its catch block, throws a TypeError
indexLibraryNameThrows(u) ==
    /\ ~Includes(u, NpmPackagePath)
    /\ Includes(u, GithubCom)
    /\ ~Includes(u, GithubComSlash)

\* fetch-url-docs of index
indexFetchUrlDocs(u, fetchThrows) ==
    IF indexLibraryNameThrows(u)
    THEN [rejected |-> "TypeError"]
    ELSE [content |-> TextContent(fetchUrlContent(u, fetchThrows))]

\* the result tells the caller that the tool failed
IsError(result) ==
    \/ "rejected" \in DOMAIN result
    \/ "isError" \in DOMAIN result /\ result.isError

\* results[language] = ...: an object keeps its keys in the order of their
\* first assignment (the languages are not integer-like strings)
SetKey(results, entry) ==
    IF \E i \in DOMAIN results : results[i].language = entry.language
    THEN [i \in DOMAIN results |->
             IF results[i].language = entry.language THEN entry
             ELSE results[i]]
    ELSE Append(results, entry)

\* one pass of the for loop of fetch-multilingual-docs
eachLanguage(loop, packageName, language, end, clock) ==
    LET packageUrl == getPackageUrl(packageName, language)
        out == fetchLibraryDocumentation(packageUrl, end, clock)
    IN  IF out.kind = "rejected"
        THEN [results |-> SetKey(loop.results,
                                 [language |-> language, success |-> FALSE,
                                  error |-> out.reason]),
              hasSuccessfulFetch |-> loop.hasSuccessfulFetch]
        ELSE [results |-> SetKey(loop.results,
                                 [language |-> language, url |-> packageUrl,
                                  success |-> TRUE, content |-> out]),
              hasSuccessfulFetch |-> TRUE]

\* the for loop over languages; ends[i] is how the crawl of pass i ended
RECURSIVE eachLanguages(_, _, _, _, _)
eachLanguages(loop, packageName, languages, ends, clock) ==
    IF languages = <<>> THEN loop
    ELSE eachLanguages(
            eachLanguage(loop, packageName, Head(languages), Head(ends),
                         clock),
            packageName, Tail(languages), Tail(ends), clock)

\* results[language]
ResultOf(results, language) ==
    results[CHOOSE i \in DOMAIN results : results[i].language = language]

\* Object.keys(results).find((lang) => results[lang].success) ||
\* languages[0]
bestLanguage(results, languages) ==
    LET found == {i \in DOMAIN results : results[i].success}
    IN  IF found = {} THEN languages[1]
        ELSE results[CHOOSE i \in found : \A j \in found : i <= j].language

\* fetch-multilingual-docs
fetchMultilingualDocs(packageName, languages, ends, clock) ==
    LET loop == eachLanguages([results |-> <<>>,
                               hasSuccessfulFetch |-> FALSE],
                              packageName, languages, ends, clock)
    IN  IF ~loop.hasSuccessfulFetch
        THEN [content |-> TextContent(
                  [error |-> "Failed to fetch documentation in any language",
                   packageName |-> packageName, languages |-> languages]),
              isError |-> TRUE]
        ELSE LET best == bestLanguage(loop.results, languages)
             IN  [content |-> TextContent(
                      [summary |-> [i \in DOMAIN languages |->
                                       ResultOf(loop.results, languages[i])],
                       from |-> best,
                       bestContent |-> ResultOf(loop.results, best).content])]

\* the inputs of the tools
ToolUrls == {UrlA, UrlGithub}

PackageNames == {PackageAb}

\* " PyPI ", "cobol" (no ecosystem of the switch) and "go"
LanguageTags ==
    {<<32, 80, 121, 80, 73, 32>>,
     <<99, 111, 98, 111, 108>>,
     <<103, 111>>}

\* no tool call is in progress
NoToolCall == fn = "none"

FetchUrlDocs(u, end) ==
    /\ NoToolCall
    /\ isUrl(u)
    /\ fn' = "fetch-url-docs"
    /\ args' = [url |-> u, seed |-> u, end |-> end]
    /\ ret' = fetchUrlDocs(u, end, now)
    /\ UNCHANGED serverVars

FetchPackageDocs(packageName, language, end) ==
    /\ NoToolCall
    /\ fn' = "fetch-package-docs"
    /\ args' = [packageName |-> packageName, language |-> language,
                seed |-> getPackageUrl(packageName,
                                       languageOrDefault(language)),
                end |-> end]
    /\ ret' = fetchPackageDocs(packageName, language, end, now)
    /\ UNCHANGED serverVars

FetchLibraryDocs(library, language, end) ==
    /\ NoToolCall
    /\ fn' = "fetch-library-docs"
    /\ args' = [library |-> library, language |-> language,
                seed |-> IF isUrl(library) THEN library
                         ELSE getPackageUrl(library,
                                            languageOrDefault(language)),
                end |-> end]
    /\ ret' = fetchLibraryDocs(library, language, end, now)
    /\ UNCHANGED serverVars

IndexFetchUrlDocs(u, fetchThrows) ==
    /\ NoToolCall
    /\ isUrl(u)
    /\ fn' = "index fetch-url-docs"
    /\ args' = [url |-> u, seed |-> u,
                end |-> IF fetchThrows THEN "no page" ELSE "one page"]
    /\ ret' = indexFetchUrlDocs(u, fetchThrows)
    /\ UNCHANGED serverVars

\* the lists of languages of a call, and how the crawl of each ended
LanguageLists == UNION {[1..n -> LanguageTags] : n \in 0..MaxLanguages}

FetchMultilingualDocs(packageName, languages, ends) ==
    /\ NoToolCall
    /\ Len(ends) = Len(languages)
    /\ fn' = "fetch-multilingual-docs"
    /\ args' = [packageName |-> packageName, languages |-> languages,
                ends |-> ends]
    /\ ret' = fetchMultilingualDocs(packageName, languages, ends, now)
    /\ UNCHANGED serverVars

\* the caller has the result
ToolReturn ==
    /\ ~NoToolCall
    /\ fn' = "none"
    /\ args' = <<>>
    /\ ret' = <<>>
    /\ UNCHANGED serverVars

ToolNext ==
    \/ \E u \in ToolUrls, end \in CrawlEnds : FetchUrlDocs(u, end)
    \/ \E packageName \in PackageNames,
          language \in LanguageTags \cup {undefined}, end \in CrawlEnds :
          FetchPackageDocs(packageName, language, end)
    \/ \E library \in PackageNames \cup ToolUrls,
          language \in LanguageTags \cup {undefined}, end \in CrawlEnds :
          FetchLibraryDocs(library, language, end)
    \/ \E u \in ToolUrls, fetchThrows \in BOOLEAN :
          IndexFetchUrlDocs(u, fetchThrows)
    \/ \E packageName \in PackageNames, languages \in LanguageLists :
          \E ends \in [DOMAIN languages -> CrawlEnds] :
             FetchMultilingualDocs(packageName, languages, ends)
    \/ ToolReturn

ToolSpec == Init /\ [][ToolNext]_vars

(***************************************************************************)
(* The functions called on their own: one call at a time, its arguments    *)
(* in args and what it returned in ret.                                    *)
(***************************************************************************)
\* what new Date() can read at a compilation
CompileClocks == {0, 1}

\* "Intro Page"
TitleIntro ==
    <<73, 110, 116, 114, 111, 32, 80, 97, 103, 101>>

\* "Usage"
TitleUsage ==
    <<85, 115, 97, 103, 101>>

\* a page without headings, code or API entries
PagePlain ==
    [url |-> UrlA, title |-> TitleIntro,
     content |-> <<[name |-> "p", text |-> "Welcome."]>>, links |-> <<>>,
     codeExamples |-> <<>>, apiSignatures |-> <<>>,
     timestamp |-> toISOString(0)]

\* a page with a first-level heading, text below it, a code example and
\* an API entry
PageRich ==
    [url |-> UrlB, title |-> TitleUsage,
     content |-> <<[name |-> "div", text |-> "menu"],
                   [name |-> "h1", text |-> "Usage"],
                   [name |-> "p", text |-> "Run it."],
                   [name |-> "h2", text |-> "Options"]>>,
     links |-> <<UrlA>>,
     codeExamples |-> <<[code |-> "fn main() {}", language |-> "rust",
                         description |-> "Usage"]>>,
     apiSignatures |-> <<[name |-> "run", signature |-> "run()",
                          description |-> "Run it."]>>,
     timestamp |-> toISOString(0)]

SamplePages == {PagePlain, PageRich, ProcessedPage(UrlC, <<>>, 0)}

PageLists ==
    UNION {[1..n -> SamplePages] : n \in 0..MaxPagesCompiled}

CompileDocumentation(pages, name, clock) ==
    /\ NoToolCall
    /\ fn' = "compileDocumentation"
    /\ args' = [pages |-> pages, libraryName |-> name]
    /\ ret' = [document |-> compileDocumentation(pages, name, clock),
               clock |-> clock]
    /\ UNCHANGED serverVars

\* the same list and name compiled a second time, at another reading of
\* the clock
CompileAgain(clock) ==
    /\ fn = "compileDocumentation"
    /\ fn' = "compileDocumentation twice"
    /\ ret' = [document |-> ret.document, clock |-> ret.clock,
               again |-> compileDocumentation(args.pages, args.libraryName,
                                              clock),
               clockAgain |-> clock]
    /\ UNCHANGED <<args, serverVars>>

\* a page as cheerio.load(html) sees it: its elements in document order,
\* each with its tag name, its attributes, the text directly in it and the
\* position of its parent (0: the body)
Element(name, attrs, text, parent) ==
    [name |-> name, attrs |-> attrs, text |-> text, parent |-> parent]

NoAttrs == [a \in {} |-> <<>>]

\* elem.attr(a), undefined when the element has no such attribute
attr(elem, a) == IF a \in DOMAIN elem.attrs THEN elem.attrs[a] ELSE undefined

\* x || y for strings: y when x is undefined or empty
OrElse(x, y) == IF x = undefined \/ x = <<>> THEN y ELSE x

\* $elem.parents(): the elements around element i, innermost first
RECURSIVE parents(_, _)
parents(html, i) ==
    IF html[i].parent = 0 THEN <<>>
    ELSE <<html[i].parent>> \o parents(html, html[i].parent)

\* $elem.text(): the text in element i and in the elements inside it
text(html, i) ==
    LET inside == {j \in DOMAIN html : i \in Range(parents(html, j))}
        RECURSIVE from(_)
        from(j) == IF j > Len(html) THEN <<>>
                   ELSE IF j \in inside THEN html[j].text \o from(j + 1)
                   ELSE from(j + 1)
    IN  html[i].text \o from(i + 1)

HighlightClass ==
    <<104, 105, 103, 104, 108, 105, 103, 104, 116>>

CodeExampleClass ==
    <<99, 111, 100, 101, 45, 101, 120, 97, 109, 112, 108, 101>>

CodeWord == <<99, 111, 100, 101>>

ExampleWord == <<101, 120, 97, 109, 112, 108, 101>>

\* the class attribute has cls among its blank-separated names
hasClass(elem, cls) == cls \in Range(Split(OrElse(attr(elem, "class"), <<>>), <<32>>))

\* the selector 'pre code, pre, code, .highlight, .code-example,
\* [class*="code"], [class*="example"]'
isCandidate(html, i) ==
    \/ html[i].name \in {"pre", "code"}
    \/ hasClass(html[i], HighlightClass)
    \/ hasClass(html[i], CodeExampleClass)
    \/ Includes(OrElse(attr(html[i], "class"), <<>>), CodeWord)
    \/ Includes(OrElse(attr(html[i], "class"), <<>>), ExampleWord)

\* the test "Skip nested code elements"
isNestedSkipped(html, i) ==
    /\ \E p \in Range(parents(html, i)) : html[p].name \in {"pre", "code"}
    /\ html[i].name # "pre"
    /\ html[i].name # "code"

\* "language", "lang", "syntax": the alternatives of the class pattern
ClassWords ==
    <<<<108, 97, 110, 103, 117, 97, 103, 101>>,
      <<108, 97, 110, 103>>,
      <<115, 121, 110, 116, 97, 120>>>>

\* \w
WordChars == (48..57) \cup (65..90) \cup {95} \cup (97..122)

\* className.match(/(language|lang|syntax)-(\w+)/i): the second group of
\* the leftmost match, undefined when nothing matches
classMatch(className) ==
    LET lower == toLowerCase(className)
        matchAt(i, w) ==
            /\ StartsWith(SubSeq(lower, i, Len(lower)), ClassWords[w] \o <<45>>)
            /\ i + Len(ClassWords[w]) + 1 <= Len(className)
            /\ className[i + Len(ClassWords[w]) + 1] \in WordChars
        starts == {i \in DOMAIN className :
                      \E w \in DOMAIN ClassWords : matchAt(i, w)}
        first == CHOOSE i \in starts : \A j \in starts : i <= j
        word == CHOOSE w \in DOMAIN ClassWords :
                    /\ matchAt(first, w)
                    /\ \A v \in 1..(w - 1) : ~matchAt(first, v)
        group == first + Len(ClassWords[word]) + 1
        rest == SubSeq(className, group, Len(className))
        stop == FirstOf(rest, (0..127) \ WordChars)
    IN  IF starts = {} THEN undefined ELSE SubSeq(rest, 1, stop - 1)

Js == <<106, 115>>

Ts == <<116, 115>>

TypeScript == <<116, 121, 112, 101, 115, 99, 114, 105, 112, 116>>

\* the language of a candidate, before it is put in lower case
languageOf(elem) ==
    LET className == OrElse(attr(elem, "class"), <<>>)
        fromClass ==
            IF classMatch(className) # undefined THEN classMatch(className)
            ELSE IF Includes(className, Js) \/ Includes(className, DefaultLanguage)
                 THEN DefaultLanguage
            ELSE IF Includes(className, Ts) \/ Includes(className, TypeScript)
                 THEN TypeScript
            ELSE <<>>
    IN  IF fromClass # <<>> THEN fromClass
        ELSE OrElse(attr(elem, "data-language"),
             OrElse(attr(elem, "data-lang"),
             OrElse(attr(elem, "language"),
             OrElse(attr(elem, "lang"), <<>>))))

\* the description of candidate i: the text of the heading or paragraph
\* right before it, else of the first heading in its parent
descriptionOf(html, i) ==
    LET before == {j \in 1..(i - 1) : html[j].parent = html[i].parent}
        prev == CHOOSE j \in before : \A k \in before : k <= j
        inParent == {j \in DOMAIN html :
                        /\ html[j].name \in Range(HeadingNames)
                        /\ \/ html[i].parent = 0
                           \/ html[i].parent \in Range(parents(html, j))}
    IN  IF before # {} /\ html[prev].name \in Range(HeadingNames) \cup {"p"}
        THEN trim(text(html, prev))
        ELSE IF inParent # {}
             THEN trim(text(html, CHOOSE j \in inParent :
                                      \A k \in inParent : j <= k))
        ELSE <<>>

\* the callback of each(), for the element at i
RECURSIVE eachCandidate(_, _)
eachCandidate(html, i) ==
    LET code == trim(text(html, i))
    IN  IF i > Len(html) THEN <<>>
        ELSE IF \/ ~isCandidate(html, i)
                \/ isNestedSkipped(html, i)
                \/ Len(code) < 10
             THEN eachCandidate(html, i + 1)
        ELSE <<[code |-> code,
                language |-> toLowerCase(languageOf(html[i])),
                description |-> descriptionOf(html, i)]>>
             \o eachCandidate(html, i + 1)

extractCodeExamples(html) == eachCandidate(html, 1)

\* "fn main() {}"
RustCode ==
    <<102, 110, 32, 109, 97, 105, 110, 40, 41, 32, 123, 125>>

\* "rust"
Rust == <<114, 117, 115, 116>>

\* "language-rust"
LanguageRust ==
    <<108, 97, 110, 103, 117, 97, 103, 101, 45, 114, 117, 115, 116>>

\* "Lang-JS x"
LangJs ==
    <<76, 97, 110, 103, 45, 74, 83, 32, 120>>

\* "console.log(1)"
JsCode ==
    <<99, 111, 110, 115, 111, 108, 101, 46, 108, 111, 103, 40, 49, 41>>

ClassAttr(cls) == [a \in {"class"} |-> cls]

\* "python"
Python == <<112, 121, 116, 104, 111, 110>>

\* "print(1 + 2)"
PythonCode ==
    <<112, 114, 105, 110, 116, 40, 49, 32, 43, 32, 50, 41>>

\* "snippets"
SnippetsClass == <<115, 110, 105, 112, 112, 101, 116, 115>>

\* <pre class="snippets" data-language="python">print(1 + 2)</pre>
TaggedSnippet ==
    <<Element("pre", [a \in {"class", "data-language"} |->
                         IF a = "class" THEN SnippetsClass ELSE Python],
              PythonCode, 0)>>

\* <code class="language-rust">fn main() {}</code>
BareCode == <<Element("code", ClassAttr(LanguageRust), RustCode, 0)>>

\* <pre><code class="language-rust">fn main() {}</code></pre>
CodeInPre ==
    <<Element("pre", NoAttrs, <<>>, 0),
      Element("code", ClassAttr(LanguageRust), RustCode, 1)>>

SampleHtml ==
    {BareCode,
     CodeInPre,
     TaggedSnippet,
     \* <pre class="js">console.log(1)</pre>
     <<Element("pre", ClassAttr(Js), JsCode, 0)>>,
     \* <h2>Usage</h2><pre class="Lang-JS x">console.log(1)</pre>
     <<Element("h2", NoAttrs, TitleUsage, 0),
       Element("pre", ClassAttr(LangJs), JsCode, 0)>>,
     \* <pre><span class="code-example">console.log(1)</span></pre>
     <<Element("pre", NoAttrs, <<>>, 0),
       Element("span", ClassAttr(CodeExampleClass), JsCode, 1)>>,
     \* <div class="highlight" data-lang="rust">fn main() {}</div><code>rust</code>
     <<Element("div", [a \in {"class", "data-lang"} |->
                          IF a = "class" THEN HighlightClass ELSE Rust],
               RustCode, 0),
       Element("code", NoAttrs, Rust, 0)>>,
     \* <p>fn main() {}</p>
     <<Element("p", NoAttrs, RustCode, 0)>>}

ExtractCodeExamples(html) ==
    /\ NoToolCall
    /\ fn' = "extractCodeExamples"
    /\ args' = [html |-> html]
    /\ ret' = extractCodeExamples(html)
    /\ UNCHANGED serverVars

\* the labels of the switch of getPackageUrl
KnownTags == UNION {PackageRepositories[i].cases : i \in DOMAIN PackageRepositories}

\* a tag as a caller may write it: as it is, in upper case, with a capital
\* and blanks around it
TagForms(tag) ==
    {tag,
     [i \in DOMAIN tag |-> IF tag[i] \in 97..122 THEN tag[i] - 32 ELSE tag[i]],
     <<32, 9>> \o [i \in DOMAIN tag |->
                     IF i = 1 /\ tag[i] \in 97..122 THEN tag[i] - 32 ELSE tag[i]]
              \o <<10>>}

\* "cobol" and "": no label of the switch
UnknownTags == {<<99, 111, 98, 111, 108>>, <<>>}

ResolverTags ==
    UNION {TagForms(tag) : tag \in KnownTags \cup UnknownTags} \cup {undefined}

GetPackageUrl(packageName, language) ==
    /\ NoToolCall
    /\ fn' = "getPackageUrl"
    /\ args' = [packageName |-> packageName, language |-> language]
    /\ ret' = getPackageUrl(packageName, language)
    /\ UNCHANGED serverVars

\* "@s/ab", a scoped package name
ScopedAb == <<64, 115, 47, 97, 98>>

\* the package names whose seed URL is resolved and read back
ResolverPackages == {PackageAb, ScopedAb}

\* extractLibraryName(url) for the URL that getPackageUrl gives, as
\* fetchLibraryDocumentation does for the seed of a package request
ExtractLibraryName(packageName, language) ==
    /\ NoToolCall
    /\ ~extractLibraryNameThrows(getPackageUrl(packageName, language))
    /\ fn' = "extractLibraryName"
    /\ args' = [packageName |-> packageName, language |-> language,
                url |-> getPackageUrl(packageName, language)]
    /\ ret' = extractLibraryName(getPackageUrl(packageName, language))
    /\ UNCHANGED serverVars

\* http://h, the site's root written without its slash
UrlRoot == <<104, 116, 116, 112, 58, 47, 47, 104>>

\* the pages whose links are extracted
BaseUrls == {UrlA, UrlRoot}

ExtractRelevantLinks(anchors, baseUrl, name) ==
    /\ NoToolCall
    /\ ~extractRelevantLinksThrows(baseUrl)
    /\ fn' = "extractRelevantLinks"
    /\ args' = [html |-> anchors, baseUrl |-> baseUrl, libraryName |-> name]
    /\ ret' = extractRelevantLinks(anchors, baseUrl, name)
    /\ UNCHANGED serverVars

FunctionReturn ==
    /\ ~NoToolCall
    /\ fn' = "none"
    /\ args' = <<>>
    /\ ret' = <<>>
    /\ UNCHANGED serverVars

FunctionNext ==
    \/ \E pages \in PageLists, name \in LibraryNames,
          clock \in CompileClocks : CompileDocumentation(pages, name, clock)
    \/ \E clock \in CompileClocks : CompileAgain(clock)
    \/ \E html \in SampleHtml : ExtractCodeExamples(html)
    \/ \E packageName \in PackageNames, language \in ResolverTags :
          GetPackageUrl(packageName, language)
    \/ \E packageName \in ResolverPackages, language \in ResolverTags :
          ExtractLibraryName(packageName, language)
    \/ \E anchors \in {l \in AnchorLists : Len(l) <= MaxAnchors},
          baseUrl \in BaseUrls, name \in LibraryNames :
          ExtractRelevantLinks(anchors, baseUrl, name)
    \/ FunctionReturn

FunctionSpec == Init /\ [][FunctionNext]_vars

(***************************************************************************)
(* A server that serves several requests at once.  A tool handler is an    *)
(* async function: the server starts it for every request it reads, and    *)
(* the crawls of the requests take turns at their awaits.  Between two     *)
(* awaits a crawl runs alone, so each action is the code from one await    *)
(* to the next, and a getPage or setPage call (synchronous file            *)
(* operations) never has another request's step inside it.  The cache      *)
(* directory and the clock are the only state the crawls share.            *)
(***************************************************************************)
ServerSeeds == {UrlA, UrlQ}

\* the a[href] lists of the pages of this site: no link, or links to two
\* places of the page http://h/b
ServerAnchorLists ==
    {<<>>,
     <<[href |-> UrlBx, text |-> <<97, 112, 105>>],
       [href |-> UrlBy, text |-> <<97, 112, 105>>]>>}

\* the HTTP status of a response; the code never reads it
Statuses == {200, 404}

\* what extractRelevantLinks can return for page u of this site in a
\* crawl for name
ServerLinkLists(u, name) ==
    IF extractRelevantLinksThrows(u) THEN {}
    ELSE {extractRelevantLinks(anchors, u, name) :
             anchors \in ServerAnchorLists}

\* the same, tabulated: the page, the name, the lists
ServerLinkTable ==
    {<<u, extractLibraryName(seed),
       ServerLinkLists(u, extractLibraryName(seed))>> :
        u \in ServerSeeds \cup {UrlBx, UrlBy}, seed \in ServerSeeds}

ServerLinkListsOf(u, name) ==
    (CHOOSE row \in ServerLinkTable : row[1] = u /\ row[2] = name)[3]

AllServerLinkLists == UNION {row[3] : row \in ServerLinkTable}

\* the loop of crawlDocumentation from its condition up to the next await
\* that gives way to other requests: the await of fetch() when the cache
\* has no fresh record, or the await of fetchAndProcessPage when it has
RECURSIVE runToAwait(_, _, _)
runToAwait(c, fs, clock) ==
    LET head == Head(c.urlsToVisit)
        cachedPage == IF c.skipCache THEN Null
                      ELSE getPage(head, fs, clock, FALSE)
    IN  IF ~loopCondition(c.urlsToVisit, c.processedPages, c.maxPages)
        THEN [c EXCEPT !.pc = "returned"]
        ELSE IF head \in c.visitedUrls
        THEN runToAwait([c EXCEPT !.urlsToVisit = Tail(c.urlsToVisit),
                                  !.currentUrl = head,
                                  !.skipped = Append(c.skipped, head)],
                        fs, clock)
        ELSE [c EXCEPT !.urlsToVisit = Tail(c.urlsToVisit),
                       !.currentUrl = head,
                       !.visitedUrls = markVisited(c.visitedUrls, head),
                       !.processedPage = cachedPage,
                       !.pc = IF cachedPage # Null THEN "resolved"
                              ELSE "fetching",
                       !.hits = IF cachedPage # Null
                                THEN Append(c.hits, cachedPage)
                                ELSE c.hits,
                       !.fetched = IF cachedPage # Null THEN c.fetched
                                   ELSE Append(c.fetched, head)]

\* crawlDocumentation(startUrl, libraryName, maxPages, skipCache) up to
\* its first await; fetchLibraryDocumentation calls it without skipCache
ServerCrawl(r, startUrl, budget, skip) ==
    /\ crawls[r] = NoCrawl
    /\ \A q \in 1..(r - 1) : crawls[q] # NoCrawl
    /\ ~extractLibraryNameThrows(startUrl)
    /\ crawls' = [crawls EXCEPT ![r] = runToAwait(
          [pc |-> "loop", startUrl |-> startUrl,
           libraryName |-> extractLibraryName(startUrl),
           maxPages |-> budget, skipCache |-> skip,
           visitedUrls |-> {}, processedPages |-> <<>>,
           urlsToVisit |-> <<startUrl>>, currentUrl |-> <<>>,
           processedPage |-> Null,
           \* the status of the response that was just turned into
           \* processedPage (0: none)
           status |-> 0,
           \* history: the URLs handed to fetch(), the records handed
           \* to setPage, the records taken from the cache, the URLs
           \* that the visited check skipped, when the crawl started,
           \* and whether every earlier crawl had returned by then
           fetched |-> <<>>, puts |-> <<>>, hits |-> <<>>,
           skipped |-> <<>>, startedAt |-> now,
           alone |-> \A q \in 1..(r - 1) : crawls[q].pc = "returned"],
          files, now)]
    /\ UNCHANGED <<callVars, pc, crawlVars, outcome, files, now, boundVars,
                   histVars>>

\* the response of request r's fetch arrives with some status and is
\* parsed: the record is built, cached and returned
ServerFetchSucceeds(r, status, links) ==
    LET c == crawls[r]
        page == ProcessedPage(c.currentUrl, links, now)
    IN  /\ c.pc = "fetching"
        /\ links \in ServerLinkListsOf(c.currentUrl, c.libraryName)
        /\ files' = setPage(c.currentUrl, page, files, FALSE).files
        /\ crawls' = [crawls EXCEPT ![r] =
              [c EXCEPT !.processedPage = page,
                        !.puts = Append(c.puts, page),
                        !.status = status,
                        !.pc = "resolved"]]
        /\ UNCHANGED <<callVars, pc, crawlVars, outcome, now, boundVars,
                       histVars>>

\* fetch() of request r rejects: the catch block returns null
ServerFetchFails(r) ==
    /\ crawls[r].pc = "fetching"
    /\ crawls' = [crawls EXCEPT ![r].processedPage = Null,
                                ![r].pc = "resolved"]
    /\ UNCHANGED <<callVars, pc, crawlVars, outcome, files, now, boundVars,
                   histVars>>

\* request r goes on after its await: the rest of the pass, and the loop
\* up to the next await
ServerResume(r) ==
    LET c == crawls[r]
    IN  /\ c.pc = "resolved"
        /\ crawls' = [crawls EXCEPT ![r] = runToAwait(
              IF c.processedPage = Null THEN c
              ELSE [c EXCEPT !.processedPages =
                                 Append(c.processedPages, c.processedPage),
                             !.urlsToVisit =
                                 pushLinks(c.processedPage.links,
                                           c.visitedUrls, c.urlsToVisit),
                             !.status = 0],
              files, now)]
        /\ UNCHANGED <<callVars, pc, crawlVars, outcome, files, now,
                       boundVars, histVars>>

\* time passes between two requests
ServerTick(d) ==
    /\ ticks < MaxTicks
    /\ \E r \in Requests : crawls[r] # NoCrawl
    /\ \E r \in Requests : crawls[r] = NoCrawl
    /\ \A r \in Requests : crawls[r].pc \in {"idle", "returned"}
    /\ ticks' = ticks + 1
    /\ now' = now + d
    /\ UNCHANGED <<callVars, crawls, pc, crawlVars, outcome, files,
                   budgetLeft, faults, corrupted, calls, histVars>>

ServerNext ==
    \/ \E r \in Requests, startUrl \in ServerSeeds,
          budget \in 1..MaxServerPages, skip \in BOOLEAN :
          ServerCrawl(r, startUrl, budget, skip)
    \/ \E r \in Requests, status \in Statuses,
          links \in AllServerLinkLists :
          ServerFetchSucceeds(r, status, links)
    \/ \E r \in Requests : ServerFetchFails(r)
    \/ \E r \in Requests : ServerResume(r)
    \/ \E d \in TickSteps : ServerTick(d)

ServerSpec == Init /\ [][ServerNext]_vars

(***************************************************************************)
(* Properties of the crawl.                                                *)
(***************************************************************************)
\* the URLs of the accepted pages, in order
PageUrls == [i \in DOMAIN processedPages |-> processedPages[i].url]

\* C1: for every page budget and every link graph the result list holds at
\* most maxPages page records, in every state of the loop and at return
C1_OutputWithinBudget == Len(processedPages) <= maxPages

\* the budget is met while discovered links are still waiting
C1_Witness ==
    /\ pc = "exhausted"
    /\ maxPages >= 2
    /\ Len(processedPages) = maxPages
    /\ Len(urlsToVisit) >= 2

\* C2: no URL is resolved twice, the result list has no two records with
\* the same URL, and when the crawl ends the visited set is as large as the
\* set of URLs that were dequeued
C2_NoRevisit ==
    /\ NoDuplicates(resolved)
    /\ NoDuplicates(PageUrls)
    /\ pc \in {"exhausted", "threw"} =>
          Cardinality(visitedUrls) = Cardinality(Range(dequeued))

\* a crawl ended in which a later page links back to an earlier one
C2_Witness ==
    /\ pc = "exhausted"
    /\ \E i, j \in DOMAIN processedPages :
          /\ i < j
          /\ "links" \in DOMAIN processedPages[j]
          /\ processedPages[i].url \in Range(processedPages[j].links)

\* the links of the accepted page of u (none for a URL without a page)
LinksOf(u) ==
    IF \E i \in DOMAIN processedPages :
          processedPages[i].url = u /\ "links" \in DOMAIN processedPages[i]
    THEN (CHOOSE r \in Range(processedPages) :
             r.url = u /\ "links" \in DOMAIN r).links
    ELSE <<>>

\* the links of the pages of a level, one page after the other
RECURSIVE LevelLinks(_)
LevelLinks(level) ==
    IF level = <<>> THEN <<>>
    ELSE LinksOf(Head(level)) \o LevelLinks(Tail(level))

\* the first occurrences of the URLs of s that are not in seen
RECURSIVE NewUrls(_, _)
NewUrls(s, seen) ==
    IF s = <<>> THEN <<>>
    ELSE IF Head(s) \in seen THEN NewUrls(Tail(s), seen)
         ELSE <<Head(s)>> \o NewUrls(Tail(s), seen \cup {Head(s)})

\* breadth-first order by levels: a level, then the levels after it
RECURSIVE BreadthFirst(_, _)
BreadthFirst(level, seen) ==
    IF level = <<>> THEN <<>>
    ELSE level \o BreadthFirst(NewUrls(LevelLinks(level), seen),
                               seen \cup Range(LevelLinks(level)))

Min(a, b) == IF a <= b THEN a ELSE b

\* C5: when every resolution succeeds the result is the first
\* min(maxPages, reachable) URLs in breadth-first discovery order from the
\* seed, every resolved URL is one of them, and nothing is fetched or looked
\* up once maxPages pages are accepted
C5_BreadthFirstPrefix ==
    /\ Len(processedPages) >= maxPages => pc \notin {"fetching", "resolved"}
    /\ (pc = "exhausted" /\ failed = {}) =>
          /\ PageUrls = SubSeq(BreadthFirst(<<url>>, {url}), 1,
                               Min(maxPages, Len(BreadthFirst(<<url>>, {url}))))
          /\ resolved = PageUrls

\* budget 2, a seed with three links, every fetch succeeds: the result is
\* the seed and its first link, and nothing else was fetched
C5_Witness ==
    /\ pc = "exhausted"
    /\ failed = {}
    /\ maxPages = 2
    /\ Len(processedPages) = 2
    /\ Len(processedPages[1].links) = 3
    /\ PageUrls = <<url, processedPages[1].links[1]>>
    /\ fetched = PageUrls
    /\ Len(urlsToVisit) = 2

(***************************************************************************)
(* Properties of the entry point and of failures.                          *)
(***************************************************************************)
\* C3: fetchLibraryDocumentation fails exactly when the crawl produced no
\* page record, the failure names the seed URL, and with at least one page
\* the caller gets the compiled document
C3_FailureIffNoPages ==
    pc = "done" =>
        /\ (outcome.kind # "document") <=> (Len(processedPages) = 0)
        /\ outcome.kind # "document" =>
              outcome.kind = "error" /\ outcome.url = url

\* the pages accepted, the failed URLs and the URL in flight account for
\* every resolved URL
PagesAccounted ==
    Len(processedPages) + Cardinality(failed)
      + (IF pc = "fetching" \/ (pc = "resolved" /\ processedPage # Null)
         THEN 1 ELSE 0)
    = Len(resolved)

\* C4: a failed resolution gives no page record and no cache entry for its
\* URL, costs no accepted page, is not retried, and no per-page failure
\* (failed fetch or unusable cached record) aborts the crawl
C4_PageFailuresAbsorbed ==
    /\ \A u \in failed :
          /\ u \notin Range(PageUrls)
          /\ ~(lastPut.op = "put" /\ lastPut.url = u)
    /\ NoDuplicates(resolved)
    /\ pc \notin {"threw", "exhausted", "done"} => PagesAccounted
    /\ pc # "threw"

\* C6: every crawl reaches the exhausted state, and there the result list
\* holds maxPages pages or the frontier is empty
C6_ReachesExhausted ==
    (pc = "loop") ~>
        (pc = "exhausted"
         /\ (Len(processedPages) = maxPages \/ urlsToVisit = <<>>))

\* C8: a stored record that is unparseable or lacks page-record fields is
\* absent for getPage, and the crawl never takes one as a page
C8_CorruptRecordIsMiss ==
    /\ (lastGet.op = "get" /\ lastGet.result # Null) =>
          {"url", "links", "timestamp"} \subseteq DOMAIN lastGet.result
    /\ \A i \in DOMAIN processedPages :
          {"url", "links", "timestamp"} \subseteq DOMAIN processedPages[i]

\* the write of this setPage call did not reach the disk
PutFailed(put) == writeFileSyncThrows(cachePath(put.url), put.ioError)

\* C9: a failing read yields absent, and a failing write leaves the caller
\* with the page record it built and on its normal path
C9_IoFailuresSwallowed ==
    /\ (lastGet.op = "get" /\ lastGet.ioError) => lastGet.result = Null
    /\ (lastPut.op = "put" /\ PutFailed(lastPut)) =>
          /\ lastPut.url \notin failed
          /\ (pc = "resolved" /\ currentUrl = lastPut.url) =>
                processedPage = lastPut.page

\* a write failed, its page was accepted all the same, and a later read
\* failed and sent the crawl on to fetch
C9_Witness ==
    /\ lastPut.op = "put"
    /\ PutFailed(lastPut)
    /\ Len(processedPages) >= 1
    /\ processedPages[1] = lastPut.page
    /\ lastGet.op = "get"
    /\ lastGet.ioError
    /\ lastGet.url # lastPut.url
    /\ pc = "fetching"

\* C10: the cache key is injective over URLs and filesystem-safe: it has no
\* path separator, so the record of a URL is one file of DOCS_CACHE_DIR
C10_KeyIsFilesystemSafe ==
    /\ \A u, v \in SiteUrls \cup SeedUrls : u # v => cacheKey(u) # cacheKey(v)
    /\ lastPut.op = "put" =>
          /\ 47 \notin Range(cacheKey(lastPut.url))
          /\ Len(cachePath(lastPut.url)) = 1

(***************************************************************************)
(* Properties of the cache.                                                *)
(***************************************************************************)
\* C7: after put(u, r), get(u) returns r while less than 24 hours have
\* passed since the write, and absent from 24 hours on
C7_PutThenGet ==
    (/\ lastGet.op = "get"
     /\ ~lastGet.ioError
     /\ lastGet.put.op = "put"
     /\ ~lastGet.put.ioError
     /\ lastGet.put.url = lastGet.url) =>
        lastGet.result = IF lastGet.at - lastGet.put.at < TTL
                         THEN lastGet.put.page
                         ELSE Null

(***************************************************************************)
(* Properties of the tools.                                                *)
(***************************************************************************)
\* the tools that fetch the documentation of one seed
SingleFetchTools ==
    {"fetch-url-docs", "fetch-package-docs", "fetch-library-docs",
     "index fetch-url-docs"}

\* the fetch below the tool call produced a page
FetchSucceeded ==
    /\ args.end = "one page"
    /\ fn = "index fetch-url-docs" \/ ~extractLibraryNameThrows(args.seed)

\* no page could be fetched
FetchFailed ==
    \/ args.end = "no page"
    \/ fn # "index fetch-url-docs" /\ extractLibraryNameThrows(args.seed)

\* C11: when the fetch below fetch-url-docs, fetch-package-docs or
\* fetch-library-docs fails the tool result has isError set, and when it
\* succeeds the result carries the document and isError is not set
C11_FailedFetchIsError ==
    fn \in SingleFetchTools =>
        /\ FetchFailed => IsError(ret)
        /\ FetchSucceeded =>
              /\ ~IsError(ret)
              /\ ret.content[1].text.kind = "document"

\* the passes of the call whose crawl produced a page
PassesWithPage == {i \in DOMAIN args.languages : args.ends[i] = "one page"}

\* C12: fetch-multilingual-docs records a language as successful only if
\* the fetch for it produced a document, returns an error result when the
\* fetch failed for every requested language, and otherwise returns the
\* content of the first requested language that succeeded
C12_MultilingualSuccess ==
    fn = "fetch-multilingual-docs" =>
        /\ PassesWithPage = {} => IsError(ret)
        /\ PassesWithPage # {} =>
              /\ ~IsError(ret)
              /\ ret.content[1].text.from =
                    args.languages[CHOOSE i \in PassesWithPage :
                                      \A j \in PassesWithPage : i <= j]
        /\ ~IsError(ret) =>
              \A i \in DOMAIN args.languages :
                 ret.content[1].text.summary[i].success =>
                    ret.content[1].text.summary[i].content.kind = "document"

\* C13: the failure shown when a crawl produced no page carries the seed
\* URL and the text of the error that made the fetch of the seed fail
C13_FailureCarriesCause ==
    (pc = "done" /\ Len(processedPages) = 0 /\ url \in failed) =>
        /\ outcome.kind = "error"
        /\ outcome.url = url
        /\ "message" \in DOMAIN outcome
        /\ outcome.message = FetchErrorText

(***************************************************************************)
(* Properties of link extraction.                                          *)
(***************************************************************************)
\* new URL(u).hostname
hostname(u) == newURL(u, undefined).hostname

\* the links of a page record (none when the record has no link list)
RecordLinks(page) ==
    IF "links" \in DOMAIN page THEN Range(page.links) ELSE {}

\* C14: every link that link extraction returns for a page has the host of
\* the seed URL, and so has every URL on the frontier and every URL fetched
C14_SameHostOnly ==
    /\ \A l \in RecordLinks(processedPage) : hostname(l) = hostname(url)
    /\ \A i \in DOMAIN processedPages :
          \A l \in RecordLinks(processedPages[i]) :
             hostname(l) = hostname(url)
    /\ \A i \in DOMAIN urlsToVisit : hostname(urlsToVisit[i]) = hostname(url)
    /\ \A i \in DOMAIN fetched : hostname(fetched[i]) = hostname(url)

\* a page of the seed's host was fetched through a link of the seed page
\* and its own links are waiting on the frontier
C14_Witness ==
    /\ pc = "loop"
    /\ Len(fetched) = 2
    /\ fetched[2] \in Range(processedPages[1].links)
    /\ Len(processedPages) = 2
    /\ RecordLinks(processedPages[2]) # {}
    /\ urlsToVisit # <<>>

(***************************************************************************)
(* Properties of compileDocumentation.                                     *)
(***************************************************************************)
Compiled == fn \in {"compileDocumentation", "compileDocumentation twice"}

\* the lines of document doc that start with md
LinesOf(doc, md) == {i \in DOMAIN doc : doc[i].md = md}

\* where the page sections of doc start: a section heading followed by
\* the line of its source URL
PageSections(doc) ==
    {i \in LinesOf(doc, "## ") :
        i < Len(doc) /\ doc[i + 1].md = "Source: "}

\* the k-th smallest member of the set of line numbers S
RECURSIVE Nth(_, _)
Nth(S, k) ==
    LET least == CHOOSE i \in S : \A j \in S : i <= j
    IN  IF k = 1 THEN least ELSE Nth(S \ {least}, k - 1)

\* C15: the compiled document has one page section per page of the list,
\* in the order of the list, each with the title and the URL of its page;
\* the page count of the overview is the length of the list; the table of
\* contents has one entry per page, in order; and there is one separator
\* between each two consecutive page sections and none anywhere else.
C15_OneSectionPerPage ==
    Compiled =>
        LET doc == ret.document
            pages == args.pages
            n == Len(pages)
            sections == PageSections(doc)
            toc == LinesOf(doc, "toc")
            separators == LinesOf(doc, "---")
        IN  /\ Cardinality(sections) = n
            /\ \A k \in 1..n :
                  /\ doc[Nth(sections, k)].text = pages[k].title
                  /\ doc[Nth(sections, k) + 1].text = pages[k].url
            /\ \A i \in LinesOf(doc, "Pages Analyzed: ") : doc[i].text = n
            /\ Cardinality(LinesOf(doc, "Pages Analyzed: ")) = 1
            /\ Cardinality(toc) = n
            /\ \A k \in 1..n :
                  /\ doc[Nth(toc, k)].index = k
                  /\ doc[Nth(toc, k)].text = pages[k].title
            /\ Cardinality(separators) = (IF n = 0 THEN 0 ELSE n - 1)
            /\ \A k \in 1..(n - 1) :
                  \E i \in separators :
                      Nth(sections, k) < i /\ i < Nth(sections, k + 1)

\* two pages compiled, one of them with a first-level heading of its own
C15_Witness ==
    /\ Compiled
    /\ Len(args.pages) = 2
    /\ args.pages[1] = PageRich
    /\ Cardinality(LinesOf(ret.document, "## ")) = 3
    /\ Cardinality(LinesOf(ret.document, "---")) = 1

SingleRustBlock(html) ==
    /\ Cardinality({i \in DOMAIN html : html[i].name = "code"}) = 1
    /\ \A i \in DOMAIN html :
          \/ /\ html[i].name = "code"
             /\ attr(html[i], "class") = LanguageRust
             /\ html[i].text = RustCode
          \/ /\ html[i].name = "pre"
             /\ html[i].text = <<>>
             /\ i < Len(html)
             /\ html[i + 1].parent = i
             /\ html[i + 1].name = "code"

\* C17: a page that is one code block tagged language-rust with the text
\* fn main() {} gives exactly one code example, with the language rust and
\* that text, also when the code element is inside a pre element.
C17_OneExamplePerBlock ==
    (fn = "extractCodeExamples" /\ SingleRustBlock(args.html)) =>
        /\ Len(ret) = 1
        /\ ret[1].language = Rust
        /\ ret[1].code = RustCode

(***************************************************************************)
(* Properties of getPackageUrl.                                            *)
(***************************************************************************)
\* tag is label up to the case of its letters and white space around it
IsTag(tag, label) ==
    /\ tag # undefined
    /\ \E i \in 1..(Len(tag) + 1) :
          LET j == i + Len(label) - 1
          IN  /\ j <= Len(tag)
              /\ toLowerCase(SubSeq(tag, i, j)) = label
              /\ \A k \in DOMAIN tag : (k < i \/ k > j) => tag[k] \in WhiteSpace

\* the ecosystems that have tag among their labels
Ecosystems(tag) ==
    {i \in DOMAIN PackageRepositories :
        \E label \in PackageRepositories[i].cases : IsTag(tag, label)}

\* C18: getPackageUrl returns a URL for every package name and every tag:
\* the package page of the ecosystem that has the tag among its labels, in
\* any letter case and with white space around it, and the npm page for a
\* tag that is no label or is absent.
C18_ResolverTotal ==
    fn = "getPackageUrl" =>
        /\ isUrl(ret)
        /\ \A i \in Ecosystems(args.language) :
              ret = PackageRepositories[i].base \o args.packageName
        /\ (Ecosystems(args.language) = {} /\ args.language # undefined) =>
              ret = PackageRepositories[1].base \o args.packageName
        /\ args.language = undefined =>
              ret = PackageRepositories[1].base \o args.packageName

\* a label of another ecosystem than npm, written with a capital and with
\* white space around it
C18_Witness ==
    /\ fn = "getPackageUrl"
    /\ args.language # undefined
    /\ args.language \notin KnownTags
    /\ Ecosystems(args.language) # {}
    /\ 1 \notin Ecosystems(args.language)
    /\ \E k \in DOMAIN args.language : args.language[k] \in WhiteSpace

(***************************************************************************)
(* Properties of the frontier.                                             *)
(***************************************************************************)
\* the links of links that are neither visited nor in the frontier, each
\* once, in the order of their first occurrence
FreshLinks(links, visited, frontier) ==
    LET fresh(i) == /\ links[i] \notin visited
                    /\ links[i] \notin Range(frontier)
                    /\ \A j \in 1..(i - 1) : links[j] # links[i]
        RECURSIVE from(_)
        from(i) == IF i > Len(links) THEN <<>>
                   ELSE IF fresh(i) THEN <<links[i]>> \o from(i + 1)
                   ELSE from(i + 1)
    IN  from(1)

\* a pass of the loop accepts a page and goes on
AcceptsPage ==
    /\ pc = "resolved"
    /\ "links" \in DOMAIN processedPage
    /\ pc' = "loop"

\* C19: when a page is accepted the frontier grows by exactly the links of
\* the page that are neither visited nor queued, in discovery order; in
\* every state the frontier has no URL twice and no visited URL, and every
\* URL taken from the frontier was resolved (the visited check of the loop
\* never skipped one).
C19_FrontierHasFreshUrlsOnly ==
    /\ [](/\ NoDuplicates(urlsToVisit)
          /\ Range(urlsToVisit) \cap visitedUrls = {}
          /\ dequeued = resolved)
    /\ [][AcceptsPage =>
             urlsToVisit' = urlsToVisit \o FreshLinks(processedPage.links,
                                                      visitedUrls,
                                                      urlsToVisit)]_vars

\* two pages accepted: the second has a link that the first had queued,
\* which is in the frontier once, and a link that was appended for it
C19_Witness ==
    /\ pc = "loop"
    /\ Len(processedPages) = 2
    /\ Len(urlsToVisit) = 2
    /\ LET first == processedPages[1]
           page == processedPages[2]
       IN  /\ "links" \in DOMAIN first
           /\ "links" \in DOMAIN page
           /\ urlsToVisit[1] \in Range(first.links) \cap Range(page.links)
           /\ urlsToVisit[2] \in Range(page.links) \ Range(first.links)

(***************************************************************************)
(* Properties of extractRelevantLinks.                                     *)
(***************************************************************************)
\* the URL u stands for, without its fragment
PageOf(u) == SplitFirst(Href(newURL(u, undefined)), Hash)

\* C20: no link that extractRelevantLinks returns leads to the page whose
\* links are extracted: none is the URL of that page, with or without a
\* fragment, however the URL of the page is written.
C20_NoLinkToSamePage ==
    fn = "extractRelevantLinks" =>
        \A i \in DOMAIN ret : PageOf(ret[i]) # PageOf(args.baseUrl)

(***************************************************************************)
(* Properties of a server that serves several requests at once.            *)
(***************************************************************************)
\* request r is waiting for the response of its fetch()
Fetching(r) == crawls[r] # NoCrawl /\ crawls[r].pc = "fetching"

\* request r crawls as a tool request does: without skipCache
ToolCrawl(r) == crawls[r] # NoCrawl /\ ~crawls[r].skipCache

\* C21: no two requests of one server wait for a fetch of the same URL at
\* the same time.
C21_OneFetchPerUrl ==
    \A r, q \in Requests :
        (r # q /\ ToolCrawl(r) /\ ToolCrawl(q) /\ Fetching(r) /\ Fetching(q))
            => crawls[r].currentUrl # crawls[q].currentUrl

\* the records that the requests handed to setPage so far
AllPuts == UNION {Range(crawls[r].puts) : r \in {q \in Requests : crawls[q] # NoCrawl}}

\* request r hands a record to setPage in this step
Puts(r) ==
    /\ crawls[r] # NoCrawl
    /\ Len(crawls'[r].puts) = Len(crawls[r].puts) + 1

\* the files of the cache with the file of u holding the text of page
WithFileOf(u, page) ==
    [p \in DOMAIN files \cup {cachePath(u)} |->
        IF p = cachePath(u) THEN [json |-> page] ELSE files[p]]

JustFetched(r) ==
    /\ crawls[r] # NoCrawl
    /\ crawls[r].pc = "resolved"
    /\ crawls[r].status # 0

\* C23: a crawl with skipCache takes no record from the cache, fetches
\* every URL it resolves, and its fetched records are still in the cache
\* afterwards; a crawl without skipCache fetches a URL only when the cache
\* has no fresh record for it, and returns the cached record otherwise.
C23_BypassFetchesAndWrites ==
    /\ [](\A r \in Requests :
            (crawls[r] # NoCrawl /\ crawls[r].skipCache) =>
                /\ crawls[r].hits = <<>>
                /\ Range(crawls[r].fetched) = crawls[r].visitedUrls
                /\ JustFetched(r) =>
                      cachePath(crawls[r].currentUrl) \in DOMAIN files)
    /\ [][\A r \in Requests :
            (crawls'[r] # NoCrawl /\ ~crawls'[r].skipCache
             /\ crawls'[r].visitedUrls
                  # (IF crawls[r] = NoCrawl THEN {}
                     ELSE crawls[r].visitedUrls)) =>
                LET cachedPage == getPage(crawls'[r].currentUrl, files, now,
                                          FALSE)
                IN  IF cachedPage # Null
                    THEN /\ crawls'[r].pc = "resolved"
                         /\ crawls'[r].processedPage = cachedPage
                         /\ crawls'[r].fetched
                              = (IF crawls[r] = NoCrawl THEN <<>>
                                 ELSE crawls[r].fetched)
                    ELSE crawls'[r].pc = "fetching"]_vars

\* C24: no step removes a file of the cache; a getPage call leaves every
\* file as it was; and the text of a file changes only when setPage writes
\* the record of its URL or when the environment damages the file, so a
\* stale or unparseable file stays until then
C24_NeverRemoves ==
    [][/\ DOMAIN files \subseteq DOMAIN files'
       /\ (calls' = calls + 1 /\ lastGet'.op = "get") => files' = files
       /\ \A p \in DOMAIN files :
             files'[p] # files[p] =>
                \/ /\ calls' = calls + 1
                   /\ lastPut'.op = "put"
                   /\ cachePath(lastPut'.url) = p
                   /\ files'[p] = JSONstringify(lastPut'.page)
                \/ corrupted' # corrupted]_vars

\* getPage answered null for a record that is 24 hours old, and the file
\* of that record is still in the cache with the text setPage wrote
C24_Witness ==
    /\ lastGet.op = "get"
    /\ ~lastGet.ioError
    /\ lastGet.result = Null
    /\ lastGet.put.op = "put"
    /\ lastGet.put.url = lastGet.url
    /\ lastGet.at - lastGet.put.at >= TTL
    /\ cachePath(lastGet.url) \in DOMAIN files
    /\ files[cachePath(lastGet.url)] = JSONstringify(lastGet.put.page)

(***************************************************************************)
(* Properties of the language tag.                                         *)
(***************************************************************************)
\* the first non-empty one of the language attributes of an element
ExplicitLanguage(elem) ==
    OrElse(attr(elem, "data-language"),
    OrElse(attr(elem, "data-lang"),
    OrElse(attr(elem, "language"),
    OrElse(attr(elem, "lang"), <<>>))))

\* the language that the substrings js and ts of a class name stand for
ClassHeuristic(className) ==
    IF Includes(className, Js) \/ Includes(className, DefaultLanguage)
    THEN DefaultLanguage
    ELSE IF Includes(className, Ts) \/ Includes(className, TypeScript)
         THEN TypeScript
    ELSE <<>>

\* C25: the language of a code example is the token of a language-, lang-
\* or syntax- class when there is one, else the element's explicit language
\* attribute when it has one, and only else what the substrings js or ts of
\* the class name stand for.
C25_AttributeBeforeHeuristic ==
    (fn = "extractCodeExamples" /\ Len(args.html) = 1 /\ Len(ret) = 1) =>
        LET elem == args.html[1]
            className == OrElse(attr(elem, "class"), <<>>)
        IN  ret[1].language =
                toLowerCase(IF classMatch(className) # undefined
                            THEN classMatch(className)
                            ELSE IF ExplicitLanguage(elem) # <<>>
                                 THEN ExplicitLanguage(elem)
                            ELSE ClassHeuristic(className))

(***************************************************************************)
(* Properties of a cache hit.                                              *)
(***************************************************************************)
\* C26: a lookup of the crawl changes no file of the cache, so the
\* timestamp of a record stays the time of its fetch; the lookup is a hit
\* exactly if the file of the URL can be read and its record's timestamp
\* is less than 24 hours before the lookup, and then the crawl gets that
\* record as it is stored.
C26_HitLeavesCacheUnchanged ==
    [][(pc = "loop" /\ pc' \in {"resolved", "fetching"} /\ ~skipCache) =>
          LET p == cachePath(currentUrl')
              fresh ==
                  /\ p \in DOMAIN files
                  /\ ~lastGet'.ioError
                  /\ "json" \in DOMAIN files[p]
                  /\ "timestamp" \in DOMAIN files[p].json
                  /\ now - getTime(files[p].json.timestamp) < TTL
          IN  /\ files' = files
              /\ pc' = "resolved" <=> fresh
              /\ pc' = "resolved" => processedPage' = files[p].json]_vars

\* a record fetched by an earlier request is returned one millisecond
\* before it is 24 hours old, and its file still has the time of the fetch
C26_Witness ==
    /\ pc = "resolved"
    /\ lastGet.op = "get"
    /\ lastGet.url = currentUrl
    /\ lastGet.result # Null
    /\ processedPage = lastGet.result
    /\ lastGet.at - getTime(lastGet.result.timestamp) = TTL - 1
    /\ files[cachePath(currentUrl)] = JSONstringify(lastGet.result)

\* request 2 repeats the crawl of request 1, which has returned: the same
\* seed and budget, both without skipCache, and less than 24 hours after
\* request 1 started
Repeats ==
    /\ crawls[1] # NoCrawl
    /\ crawls[2] # NoCrawl
    /\ crawls[1].pc = "returned"
    /\ crawls[2].alone
    /\ ~crawls[1].skipCache
    /\ ~crawls[2].skipCache
    /\ crawls[2].startUrl = crawls[1].startUrl
    /\ crawls[2].libraryName = crawls[1].libraryName
    /\ crawls[2].maxPages = crawls[1].maxPages
    /\ now - crawls[1].startedAt < TTL

\* C27: a crawl that repeats a finished crawl while that crawl's records
\* are less than 24 hours old hands no URL to fetch(), and returns the page
\* list the first crawl returned.
C27_RepeatedCrawlFromCache ==
    Repeats =>
        /\ crawls[2].fetched = <<>>
        /\ crawls[2].pc = "returned" =>
              crawls[2].processedPages = crawls[1].processedPages

\* C28: a response that arrives is turned into a page record whatever its
\* status: the record is in the cache after that step and getPage returns
\* it up to 24 hours later, and the crawl appends it to its page list; the
\* resolution gives null only when no response was turned into a record.
C28_AnyStatusBecomesPage ==
    /\ [](\A r \in Requests :
            (crawls[r] # NoCrawl /\ crawls[r].pc = "resolved"
             /\ crawls[r].processedPage = Null) => crawls[r].status = 0)
    /\ [][\A r \in Requests :
            /\ (Fetching(r) /\ crawls'[r].status \in Statuses) =>
                  LET u == crawls[r].currentUrl
                      page == crawls'[r].processedPage
                  IN  /\ page # Null
                      /\ page.url = u
                      /\ page.timestamp = toISOString(now)
                      /\ cachePath(u) \in DOMAIN files'
                      /\ getPage(u, files', now + TTL - 1, FALSE) = page
            /\ (JustFetched(r) /\ crawls'[r] # crawls[r]) =>
                  crawls'[r].processedPages
                      = Append(crawls[r].processedPages,
                               crawls[r].processedPage)]_vars

\* C29: the crawl tells URLs apart as strings.  A URL is in visitedUrls
\* exactly if that string was resolved, and no string is resolved twice;
\* every link of an accepted page is visited or in the frontier as the
\* string it is, so when the crawl returns below its budget every such
\* string was resolved on its own; and every record a resolution gave is
\* a page of the list or about to be pushed.  Two links that differ
\* only after the # are two URLs in all of this.
C29_UrlIdentityIsExactString ==
    \A r \in Requests :
        crawls[r] # NoCrawl =>
            LET c == crawls[r]
                lookedUp == Range(c.fetched)
                                \cup {c.hits[i].url : i \in DOMAIN c.hits}
                discovered ==
                    {c.startUrl}
                        \cup UNION {Range(c.processedPages[i].links) :
                                       i \in DOMAIN c.processedPages}
            IN  /\ c.visitedUrls = lookedUp
                /\ Len(c.fetched) + Len(c.hits) = Cardinality(c.visitedUrls)
                /\ discovered \subseteq c.visitedUrls \cup Range(c.urlsToVisit)
                /\ (c.pc = "returned" /\ Len(c.processedPages) < c.maxPages)
                      => discovered \subseteq lookedUp
                /\ Range(c.puts) \cup Range(c.hits)
                      \subseteq Range(c.processedPages) \cup {c.processedPage}

\* a crawl found the links http://h/b#x and http://h/b#y on its first
\* page, fetched both, and returned three pages
C29_Witness ==
    \E r \in Requests :
        /\ crawls[r] # NoCrawl
        /\ crawls[r].pc = "returned"
        /\ crawls[r].fetched = <<UrlA, UrlBx, UrlBy>>
        /\ Len(crawls[r].processedPages) = 3
        /\ crawls[r].processedPages[1].links = <<UrlBx, UrlBy>>
        /\ crawls[r].processedPages[2].url = UrlBx
        /\ crawls[r].processedPages[3].url = UrlBy

(***************************************************************************)
(* Properties of extractLibraryName.                                       *)
(***************************************************************************)
\* C30: the library name read from the URL that getPackageUrl gives for a
\* package name and an ecosystem tag is that package name, also for a name
\* that contains a slash.
C30_SubjectIsPackageName ==
    fn = "extractLibraryName" => ret = args.packageName

====
